---- MODULE Spec2Model ----
(***************************************************************************)
(* State-machine model of the tool-invocation layer:                       *)
(*   - the fact store ("memories" tool): memoryTool.ts                     *)
(*   - the bulk executor of write_file / read_file: write-file.ts and the  *)
(*     read-file tool                                                      *)
(***************************************************************************)
EXTENDS Integers, Sequences, FiniteSets, TLC

(***************************************************************************)
(* Bounds of the model.                                                    *)
(***************************************************************************)
\* largest record id a save may assign (caps the id counter)
MaxId == 4
\* number of fact-store invocations that may be in flight at once
MaxInv == 2

(***************************************************************************)
(* Generic helpers.                                                        *)
(***************************************************************************)
RECURSIVE SeqMax(_)
SeqMax(s) ==
  IF Len(s) = 0 THEN 0
  ELSE LET m == SeqMax(Tail(s)) IN IF Head(s) > m THEN Head(s) ELSE m

RECURSIVE FilterSeq(_, _)
\* Array.prototype.filter with the predicate given as the set of kept values
FilterSeq(s, keep) ==
  IF Len(s) = 0 THEN <<>>
  ELSE IF Head(s) \in keep THEN <<Head(s)>> \o FilterSeq(Tail(s), keep)
       ELSE FilterSeq(Tail(s), keep)

(***************************************************************************)
(* Fact store: text of the store file.                                     *)
(* A file content is a sequence of lines (each ended by a line feed); a    *)
(* fact is a sequence of characters.                                       *)
(***************************************************************************)
\* U+2028 LINE SEPARATOR, as one character
LineSeparator == "u2028"
\* what \s and trim() take for white space, and what "." does not match
WhiteSpace == {" ", "\n", "\r", LineSeparator}
LineTerminators == {"\n", "\r", LineSeparator}

RECURSIVE TrimLeft(_)
TrimLeft(f) ==
  IF Len(f) = 0 THEN f
  ELSE IF Head(f) \in WhiteSpace THEN TrimLeft(Tail(f)) ELSE f

RECURSIVE TrimRight(_)
TrimRight(f) ==
  IF Len(f) = 0 THEN f
  ELSE IF f[Len(f)] \in WhiteSpace THEN TrimRight(SubSeq(f, 1, Len(f) - 1)) ELSE f

\* String.prototype.trim
Trim(f) == TrimRight(TrimLeft(f))

\* fact.replace(/[\r\n]/g, ' ').trim()
NormalizeFact(f) ==
  Trim([i \in 1..Len(f) |-> IF f[i] \in {"\n", "\r"} THEN " " ELSE f[i]])

\* the literal header line "# Memories"
MEMORY_SECTION_HEADER == [kind |-> "header", id |-> 0, fact |-> <<>>]
\* the empty line that follows the header
BlankLine == [kind |-> "blank", id |-> 0, fact |-> <<>>]
\* a line of the form "- [ID: <id>] <fact>"
MemLine(id, fact) == [kind |-> "mem", id |-> id, fact |-> fact]

\* the store file: absent (ENOENT) or present with a content
NoFile == [exists |-> FALSE, content |-> <<>>]
File(c) == [exists |-> TRUE, content |-> c]

\* readMemoryFileContent: an absent file reads as the empty string
readMemoryFileContent(file) == IF file.exists THEN file.content ELSE <<>>

\* line.trim().match(/^-\s*\[ID:\s*(\d+)\]\s*(.*)$/): "(.*)$" has to reach
\* the end of the trimmed line, and "." matches no line terminator
MatchesMemoryRegex(l) ==
  /\ l.kind = "mem"
  /\ LET t == Trim(l.fact) IN \A i \in 1..Len(t) : t[i] \notin LineTerminators

RECURSIVE parseMemories(_)
\* the lines that match the record pattern, in file order, fact trimmed
parseMemories(content) ==
  IF Len(content) = 0 THEN <<>>
  ELSE LET l == Head(content) IN
       IF MatchesMemoryRegex(l)
       THEN <<[id |-> l.id, fact |-> Trim(l.fact)]>> \o parseMemories(Tail(content))
       ELSE parseMemories(Tail(content))

\* header, blank line, then one line per record
formatMemories(memories) ==
  <<MEMORY_SECTION_HEADER, BlankLine>> \o
  [i \in 1..Len(memories) |-> MemLine(memories[i].id, memories[i].fact)]

Ids(memories) == [i \in 1..Len(memories) |-> memories[i].id]

\* variant: the number of records plus one
NextIdLenPlusOne(memories) == Len(memories) + 1
\* variant: the smallest id not in use
NextIdFirstGap(memories) ==
  CHOOSE n \in 1..(Len(memories) + 1) :
    /\ \A k \in 1..Len(memories) : memories[k].id # n
    /\ \A m \in 1..(n - 1) : \E k \in 1..Len(memories) : memories[k].id = m
\* memories.length > 0 ? Math.max(...memories.map((m) => m.id)) + 1 : 1
NextId(memories) ==
  IF Len(memories) > 0 THEN SeqMax(Ids(memories)) + 1 ELSE 1

(***************************************************************************)
(* Fact store: state.                                                      *)
(***************************************************************************)
VARIABLES
  memFile,      \* the store file on disk
  inv,          \* the fact-store invocations, by slot
  allowlist,    \* MemoriesToolInvocation.allowlist (actions; the path is fixed)
  userEdited,   \* history: some execute() has written user-edited content
  freedNonMax,  \* history: ids deleted while a larger id was present
  saved         \* history: the records that successful saves were given

memVars == <<memFile, inv, allowlist, userEdited, freedNonMax, saved>>

\* the bulk executor (write_file, read_file) and its environment
VARIABLES
  fs,                    \* the files: path -> [kind, content]
  dirs,                  \* the directories that exist
  denied,                \* the paths validatePathAccess refuses
  hostCRLF,              \* os.EOL === '\r\n'
  disableLLMCorrection,  \* config.getDisableLLMCorrection()
  call,                  \* the tool call: its tool, parameters and phase
  tgt,                   \* execute(): the per-target promises, in input order
  settled,               \* history: the targets in the order their promises settled
  ret,                   \* what execute() returned
  approvalMode,          \* config.getApprovalMode()
  callNo,                \* the number of the current call
  alwaysPaths,           \* history: the paths whose edit confirmation got ProceedAlways
  aborted                \* the AbortSignal handed to execute() is aborted

gateVars == <<approvalMode, callNo, alwaysPaths, aborted>>

\* the diff tool and the two paths it compares
VARIABLES
  tree,                  \* what path1 and path2 resolve to
  diff                   \* the diff invocation and its result

diffVars == <<tree, diff>>

\* the file system service, used directly
VARIABLES
  lastRead               \* what readTextFile returned last

serviceVars == <<lastRead>>

\* the configured names of the context files (module state of memoryTool.ts)
VARIABLES
  currentGeminiMdFilename,  \* let currentGeminiMdFilename: string | string[]
  lastSet                   \* history: the argument of the last setGeminiMdFilename

filenameVars == <<currentGeminiMdFilename, lastSet>>

batchVars ==
  <<fs, dirs, denied, hostCRLF, disableLLMCorrection, call, tgt, settled, ret, gateVars,
    diffVars, serviceVars, filenameVars>>

Slots == 1..MaxInv

\* this.proposedNewContent: undefined, or a content
Undefined == [defined |-> FALSE, content |-> <<>>]
Defined(c) == [defined |-> TRUE, content |-> c]

\* a falsy "id" parameter (absent)
NoId == 0
\* a falsy "fact" parameter (absent or empty)
NoFact == <<>>

\* the facts a caller may pass: two that pass validation (one needs
\* normalising), and a blank one that validation rejects
RawFacts == {<<"a">>, <<"b", "\n">>}
FactInputs == RawFacts \cup {NoFact, <<" ">>}
IdInputs == 0..MaxId
\* content a user typed in the editor of the confirmation (ids out of order)
UserContent ==
  <<MEMORY_SECTION_HEADER, BlankLine, MemLine(2, <<"a">>), MemLine(1, <<"b">>)>>

MemParams(action, fact, id, mbu) ==
  [action |-> action, fact |-> fact, id |-> id, modified_by_user |-> mbu,
   modified_content |-> IF mbu THEN Defined(UserContent) ELSE Undefined]

\* the parameter sets a caller may send on the computed path
MemParamSpace ==
  {MemParams("save", f, NoId, FALSE) : f \in FactInputs}
  \cup {MemParams(a, NoFact, id, FALSE) : a \in {"delete", "fetch"}, id \in IdInputs}
  \cup {MemParams("update", f, id, FALSE) : f \in FactInputs, id \in IdInputs}
\* the parameter sets the interleaved invocations are drawn from: one or two
\* of each action, and one that createUpdatedParams made after a user edit
MemConcurrentParamSpace ==
  {MemParams("save", <<"b", "\n">>, NoId, FALSE),
   MemParams("delete", NoFact, 1, FALSE), MemParams("delete", NoFact, 2, FALSE),
   MemParams("update", <<"b", "\n">>, 1, FALSE),
   MemParams("fetch", NoFact, 1, FALSE),
   MemParams("save", <<"a">>, NoId, TRUE)}

\* the result of an invocation (llmContent / returnDisplay / error), by shape
\* (found is history: whether execute() saw the id in the store it read; the
\* message of a delete is the same either way)
Result(kind, success, action, id, fact) ==
  [kind |-> kind, success |-> success, action |-> action, id |-> id, fact |-> fact,
   found |-> FALSE]
NoResult == Result("none", FALSE, "none", 0, <<>>)

NoParams == MemParams("none", NoFact, NoId, FALSE)

\* an invocation: its parameters, this.proposedNewContent, the outcome the
\* user gave its confirmation (if one was shown) and its result
Invocation(phase, params, proposed, result) ==
  [phase |-> phase, params |-> params, proposedNewContent |-> proposed,
   outcome |-> "none", result |-> result]
IdleInv == Invocation("idle", NoParams, Undefined, NoResult)

\* a slot holds no live invocation
Free(i) == inv[i].phase \in {"idle", "done", "rejected", "cancelled"}

\* MemoriesTool.validateToolParamValues: null (here "ok") or the error
ValidateMemParams(p) ==
  IF p.action \in {"save", "update"} /\ (p.fact = NoFact \/ Trim(p.fact) = <<>>)
  THEN "fact must be non-empty"
  ELSE IF p.action \in {"delete", "fetch", "update"} /\ p.id = NoId
       THEN "id is required"
       ELSE "ok"

HasId(memories, id) == \E k \in 1..Len(memories) : memories[k].id = id

\* variant: the new record is put first
SaveIntoFirst(memories, fact) ==
  <<[id |-> NextId(memories), fact |-> NormalizeFact(fact)]>> \o memories
\* [...memories, { id: nextId, fact: normalised }]
SaveInto(memories, fact) ==
  Append(memories, [id |-> NextId(memories), fact |-> NormalizeFact(fact)])
\* variant: the id is taken as a position in the list
DeleteFromByPosition(memories, targetId) ==
  FilterSeq(memories, {memories[k] : k \in (1..Len(memories)) \ {targetId}})
\* memories.filter((m) => m.id !== targetId)
DeleteFrom(memories, targetId) ==
  FilterSeq(memories, {memories[k] : k \in {j \in 1..Len(memories) : memories[j].id # targetId}})
\* variant: the record is removed and appended again with the new fact
UpdateInMovesLast(memories, targetId, fact) ==
  Append(DeleteFrom(memories, targetId),
         [id |-> targetId, fact |-> NormalizeFact(fact)])
\* memories.map((m) => m.id === targetId ? {...m, fact: normalised} : m)
UpdateIn(memories, targetId, fact) ==
  [k \in 1..Len(memories) |->
     IF memories[k].id = targetId
     THEN [id |-> memories[k].id, fact |-> NormalizeFact(fact)]
     ELSE memories[k]]

\* whether the three-way dispatch on the action finds a branch
Dispatches(p) ==
  \/ p.action = "save" /\ p.fact # NoFact
  \/ p.action = "delete" /\ p.id # NoId
  \/ p.action = "update" /\ p.id # NoId /\ p.fact # NoFact

\* the records the dispatch computes from the parsed records
ComputedMemories(p, memories) ==
  CASE p.action = "save" -> SaveInto(memories, p.fact)
    [] p.action = "delete" -> DeleteFrom(memories, p.id)
    [] p.action = "update" -> UpdateIn(memories, p.id, p.fact)
    [] OTHER -> memories

\* the cap on the id counter: a save is computed only while ids stay in range
WithinIdBound(p, memories) ==
  p.action = "save" => NextId(memories) <= MaxId

(***************************************************************************)
(* Fact store: operations.                                                 *)
(***************************************************************************)
\* MemoriesTool.build: validation, then createInvocation
MemBuild(i, p) ==
  /\ Free(i)
  /\ inv' = [inv EXCEPT ![i] =
       IF ValidateMemParams(p) = "ok"
       THEN Invocation("built", p, Undefined, NoResult)
       ELSE Invocation("rejected", NoParams, Undefined,
                       Result("rejected", FALSE, p.action, 0, <<>>))]
  /\ UNCHANGED <<memFile, allowlist, userEdited, freedNonMax, saved>>
  /\ UNCHANGED batchVars

\* variant: any allowlist entry suppresses the confirmation
MemConfirmAnyEntry(i) ==
  LET p == inv[i].params
      memories == parseMemories(readMemoryFileContent(memFile))
  IN
  /\ inv[i].phase = "built"
  /\ WithinIdBound(p, memories)
  /\ inv' = [inv EXCEPT ![i] =
       IF p.action = "fetch" \/ allowlist # {} \/ ~Dispatches(p)
       THEN Invocation("approved", p, Undefined, NoResult)
       ELSE Invocation("awaiting", p,
                       Defined(formatMemories(ComputedMemories(p, memories))),
                       NoResult)]
  /\ UNCHANGED <<memFile, allowlist, userEdited, freedNonMax, saved>>
  /\ UNCHANGED batchVars

\* MemoriesToolInvocation.getConfirmationDetails: false (the invocation goes
\* on to execute unprompted) or the details of an edit confirmation
MemConfirm(i) ==
  LET p == inv[i].params
      memories == parseMemories(readMemoryFileContent(memFile))
  IN
  /\ inv[i].phase = "built"
  /\ WithinIdBound(p, memories)
  /\ inv' = [inv EXCEPT ![i] =
       IF p.action = "fetch" \/ p.action \in allowlist \/ ~Dispatches(p)
       THEN Invocation("approved", p, Undefined, NoResult)
       ELSE Invocation("awaiting", p,
                       Defined(formatMemories(ComputedMemories(p, memories))),
                       NoResult)]
  /\ UNCHANGED <<memFile, allowlist, userEdited, freedNonMax, saved>>
  /\ UNCHANGED batchVars

ConfirmationOutcomes == {"ProceedOnce", "ProceedAlways", "ModifyWithEditor", "Cancel"}

\* getModifyContext().createUpdatedParams
createUpdatedParams(modifiedProposedContent, originalParams) ==
  [originalParams EXCEPT !.modified_by_user = TRUE,
                         !.modified_content = Defined(modifiedProposedContent)]

\* confirmationDetails.onConfirm, and the caller's handling of the outcome:
\* after an edit of the proposal it goes on with the updated parameters
MemOnConfirm(i, outcome) ==
  /\ inv[i].phase = "awaiting"
  /\ allowlist' = IF outcome = "ProceedAlways"
                  THEN allowlist \cup {inv[i].params.action}
                  ELSE allowlist
  /\ inv' = [inv EXCEPT ![i] =
       IF outcome = "Cancel"
       THEN Invocation("cancelled", NoParams, Undefined,
                       Result("cancelled", FALSE, inv[i].params.action, 0, <<>>))
       ELSE [inv[i] EXCEPT
               !.phase = "approved", !.outcome = outcome,
               !.params = IF outcome = "ModifyWithEditor"
                          THEN createUpdatedParams(UserContent, inv[i].params)
                          ELSE @]]
  /\ UNCHANGED <<memFile, userEdited, freedNonMax, saved>>
  /\ UNCHANGED batchVars

\* variant: the id is taken as a position in the list
ExecuteFetchByPosition(p, memories) ==
  IF p.id = NoId THEN Result("error", FALSE, p.action, 0, <<>>)
  ELSE IF p.id \in 1..Len(memories)
       THEN Result("fetched", TRUE, p.action, memories[p.id].id, memories[p.id].fact)
       ELSE Result("fetchNotFound", FALSE, p.action, p.id, <<>>)
\* the value execute() returns when it does not write
ExecuteFetch(p, memories) ==
  IF p.id = NoId THEN Result("error", FALSE, p.action, 0, <<>>)
  ELSE IF HasId(memories, p.id)
       THEN LET m == memories[CHOOSE k \in 1..Len(memories) :
                               /\ memories[k].id = p.id
                               /\ \A j \in 1..(k - 1) : memories[j].id # p.id]
            IN Result("fetched", TRUE, p.action, m.id, m.fact)
       ELSE Result("fetchNotFound", FALSE, p.action, p.id, <<>>)

\* the update branch of execute(): memories.some((m) => m.id === targetId)
ExecuteUpdateFound(p, memories) == HasId(memories, p.id)

\* variant: a proposal computed by the confirmation step wins over the
\* content the user edited
ExecuteOutcomePrefersProposed(p, proposed, memories) ==
  IF p.action = "fetch"
  THEN [writes |-> FALSE, content |-> <<>>, result |-> ExecuteFetch(p, memories)]
  ELSE IF proposed.defined
  THEN [writes |-> TRUE, content |-> proposed.content,
        result |-> Result("generic", TRUE, p.action, 0, <<>>)]
  ELSE IF p.modified_by_user /\ p.modified_content.defined
  THEN [writes |-> TRUE, content |-> p.modified_content.content,
        result |-> Result("usermod", TRUE, p.action, 0, <<>>)]
  ELSE IF p.action = "save" /\ p.fact # NoFact
  THEN [writes |-> TRUE,
        content |-> formatMemories(SaveInto(memories, p.fact)),
        result |-> Result("saved", TRUE, p.action, NextId(memories), <<>>)]
  ELSE IF p.action = "delete" /\ p.id # NoId
  THEN [writes |-> TRUE,
        content |-> formatMemories(DeleteFrom(memories, p.id)),
        result |-> [Result("deleted", TRUE, p.action, p.id, <<>>)
                      EXCEPT !.found = HasId(memories, p.id)]]
  ELSE IF p.action = "update" /\ p.id # NoId /\ p.fact # NoFact
  THEN IF ExecuteUpdateFound(p, memories)
       THEN [writes |-> TRUE,
             content |-> formatMemories(UpdateIn(memories, p.id, p.fact)),
             result |-> Result("updated", TRUE, p.action, p.id, <<>>)]
       ELSE [writes |-> FALSE, content |-> <<>>,
             result |-> Result("notFound", FALSE, p.action, p.id, <<>>)]
  ELSE [writes |-> FALSE, content |-> <<>>,
        result |-> Result("error", FALSE, p.action, 0, <<>>)]
\* the outcome of execute() on the store it reads: what it writes (if it
\* writes), the proposedNewContent it leaves, and the result it returns
ExecuteOutcome(p, proposed, memories) ==
  IF p.action = "fetch"
  THEN [writes |-> FALSE, content |-> <<>>, result |-> ExecuteFetch(p, memories)]
  ELSE IF p.modified_by_user /\ p.modified_content.defined
  THEN [writes |-> TRUE, content |-> p.modified_content.content,
        result |-> Result("usermod", TRUE, p.action, 0, <<>>)]
  ELSE IF proposed.defined
  THEN [writes |-> TRUE, content |-> proposed.content,
        result |-> Result("generic", TRUE, p.action, 0, <<>>)]
  ELSE IF p.action = "save" /\ p.fact # NoFact
  THEN [writes |-> TRUE,
        content |-> formatMemories(SaveInto(memories, p.fact)),
        result |-> Result("saved", TRUE, p.action, NextId(memories), <<>>)]
  ELSE IF p.action = "delete" /\ p.id # NoId
  THEN [writes |-> TRUE,
        content |-> formatMemories(DeleteFrom(memories, p.id)),
        result |-> [Result("deleted", TRUE, p.action, p.id, <<>>)
                      EXCEPT !.found = HasId(memories, p.id)]]
  ELSE IF p.action = "update" /\ p.id # NoId /\ p.fact # NoFact
  THEN IF ExecuteUpdateFound(p, memories)
       THEN [writes |-> TRUE,
             content |-> formatMemories(UpdateIn(memories, p.id, p.fact)),
             result |-> Result("updated", TRUE, p.action, p.id, <<>>)]
       ELSE [writes |-> FALSE, content |-> <<>>,
             result |-> Result("notFound", FALSE, p.action, p.id, <<>>)]
  ELSE [writes |-> FALSE, content |-> <<>>,
        result |-> Result("error", FALSE, p.action, 0, <<>>)]

\* MemoriesToolInvocation.execute, whatever the history of saves records
MemExecuteCore(i) ==
  LET p == inv[i].params
      memories == parseMemories(readMemoryFileContent(memFile))
      out == ExecuteOutcome(p, inv[i].proposedNewContent, memories)
  IN
  /\ inv[i].phase \in {"built", "approved"}
  /\ (~inv[i].proposedNewContent.defined) => WithinIdBound(p, memories)
  /\ memFile' = IF out.writes THEN File(out.content) ELSE memFile
  /\ userEdited' = (userEdited \/ (out.writes /\ out.result.kind = "usermod"))
  /\ inv' = [inv EXCEPT ![i] = Invocation("done", NoParams, Undefined, out.result)]
  /\ freedNonMax' =
       IF /\ out.writes /\ out.result.kind # "usermod" /\ p.action = "delete"
          /\ HasId(memories, p.id) /\ p.id < SeqMax(Ids(memories))
       THEN freedNonMax \cup {p.id} ELSE freedNonMax
  /\ UNCHANGED allowlist
  /\ UNCHANGED batchVars

\* MemoriesToolInvocation.execute
MemExecute(i) == MemExecuteCore(i) /\ UNCHANGED saved

\* the history of saves after execute() of parameters p that read memories
\* and had outcome out: a successful save adds the record it was given (the
\* last one of the content it wrote), a successful delete marks the records
\* of its id as removed
SavedAfter(history, p, out) ==
  IF out.writes /\ out.result.kind # "usermod" /\ p.action = "save"
  THEN LET written == parseMemories(out.content)
       IN Append(history, [id |-> written[Len(written)].id,
                           fact |-> written[Len(written)].fact, removed |-> FALSE])
  ELSE IF out.writes /\ out.result.kind # "usermod" /\ p.action = "delete"
  THEN [k \in 1..Len(history) |->
          IF history[k].id = p.id THEN [history[k] EXCEPT !.removed = TRUE]
          ELSE history[k]]
  ELSE history

\* what fs.writeFile may do: write the content, fail and leave the file
\* alone, or fail after it has truncated the file
WriteOutcomes == {"ok", "failed", "failedTruncated"}

\* variant: a failed read of the store is not caught
ExecuteIOReadUncaught(p, proposed, file, readOk, mkdirOk, writeOutcome) ==
  LET out == ExecuteOutcome(p, proposed, parseMemories(readMemoryFileContent(file)))
      failure(kind) == Result(kind, FALSE, p.action, 0, <<>>)
  IN
  IF file.exists /\ ~readOk
  THEN [throws |-> TRUE, writes |-> FALSE, content |-> <<>>, result |-> NoResult]
  ELSE IF ~out.writes
  THEN [throws |-> FALSE, writes |-> FALSE, content |-> <<>>, result |-> out.result]
  ELSE IF ~mkdirOk
  THEN [throws |-> FALSE, writes |-> FALSE, content |-> <<>>, result |-> failure("mkdirError")]
  ELSE IF writeOutcome = "failed"
  THEN [throws |-> FALSE, writes |-> FALSE, content |-> <<>>, result |-> failure("writeError")]
  ELSE IF writeOutcome = "failedTruncated"
  THEN [throws |-> FALSE, writes |-> TRUE, content |-> <<>>, result |-> failure("writeError")]
  ELSE [throws |-> FALSE, writes |-> TRUE, content |-> out.content, result |-> out.result]
\* execute() with its input and output: readMemoryFileContent rethrows every
\* failure but ENOENT, and the catch of execute() turns whatever was thrown
\* (by the read, the dispatch, mkdir or writeFile) into an error result
ExecuteIO(p, proposed, file, readOk, mkdirOk, writeOutcome) ==
  LET out == ExecuteOutcome(p, proposed, parseMemories(readMemoryFileContent(file)))
      failure(kind) == Result(kind, FALSE, p.action, 0, <<>>)
  IN
  IF file.exists /\ ~readOk
  THEN [throws |-> FALSE, writes |-> FALSE, content |-> <<>>, result |-> failure("readError")]
  ELSE IF ~out.writes
  THEN [throws |-> FALSE, writes |-> FALSE, content |-> <<>>, result |-> out.result]
  ELSE IF ~mkdirOk
  THEN [throws |-> FALSE, writes |-> FALSE, content |-> <<>>, result |-> failure("mkdirError")]
  ELSE IF writeOutcome = "failed"
  THEN [throws |-> FALSE, writes |-> FALSE, content |-> <<>>, result |-> failure("writeError")]
  ELSE IF writeOutcome = "failedTruncated"
  THEN [throws |-> FALSE, writes |-> TRUE, content |-> <<>>, result |-> failure("writeError")]
  ELSE [throws |-> FALSE, writes |-> TRUE, content |-> out.content, result |-> out.result]

\* MemoriesToolInvocation.execute, with reads and writes that may fail
MemExecuteIO(i, readOk, mkdirOk, writeOutcome) ==
  LET p == inv[i].params
      out == ExecuteIO(p, inv[i].proposedNewContent, memFile, readOk, mkdirOk, writeOutcome)
  IN
  /\ inv[i].phase \in {"built", "approved"}
  /\ writeOutcome \in WriteOutcomes
  /\ (~inv[i].proposedNewContent.defined) =>
       WithinIdBound(p, parseMemories(readMemoryFileContent(memFile)))
  /\ memFile' = IF out.writes THEN File(out.content) ELSE memFile
  /\ userEdited' = (userEdited \/ (out.writes /\ out.result.kind = "usermod"))
  /\ inv' = [inv EXCEPT ![i] =
       IF out.throws THEN Invocation("threw", NoParams, Undefined, NoResult)
       ELSE Invocation("done", NoParams, Undefined, out.result)]
  /\ UNCHANGED <<allowlist, freedNonMax, saved>>
  /\ UNCHANGED batchVars

\* MemoriesToolInvocation.execute, with the history of saves kept
MemExecuteRecorded(i) ==
  /\ MemExecuteCore(i)
  /\ saved' = SavedAfter(saved, inv[i].params,
                         ExecuteOutcome(inv[i].params, inv[i].proposedNewContent,
                                        parseMemories(readMemoryFileContent(memFile))))

(***************************************************************************)
(* Bulk executor (write_file, read_file): the environment.                 *)
(* A file content is a sequence of characters.                             *)
(***************************************************************************)
\* the largest number of targets of a batch
MaxTargets == 2

\* the byte-order mark U+FEFF
BOM == "BOM"
\* an omission placeholder such as "// ... rest of code ..."
Placeholder == "PH"

\* paths a caller may name: none, two files (one in a directory that may
\* not exist yet), an existing directory, a path outside the workspace
PathInputs == {"", "a.txt", "sub/b.txt", "dir", "secret.txt"}
\* the paths the configured ignore patterns match
IgnoredPaths == {"sub/b.txt"}
\* a path outside the workspace, which a caller may name as well
OutsidePaths == {"../out.txt"}
\* the paths of the file system
FsPaths == (PathInputs \ {""}) \cup OutsidePaths

\* path.dirname(resolvedPath)
DirOf(path) ==
  IF path = "sub/b.txt" THEN "sub" ELSE IF path \in OutsidePaths THEN ".." ELSE "."

Absent == [kind |-> "absent", content |-> <<>>]
FileOf(c) == [kind |-> "file", content |-> c]
Directory == [kind |-> "dir", content |-> <<>>]
\* a file that exists and cannot be read (permissions)
Locked == [kind |-> "locked", content |-> <<>>]

\* contents a caller may propose
ContentInputs == {<<"x", "\n">>, <<"y", "\r", "\n">>, <<Placeholder>>}
\* what the LLM-assisted corrector may turn a content into
CorrectedByLLM == <<"z", "\n">>

\* StandardFileSystemService.readTextFile / writeTextFile: the mark is dropped
StripBOM(c) == IF Len(c) > 0 /\ Head(c) = BOM THEN Tail(c) ELSE c

\* config.validatePathAccess: null (here "ok") or the error
validatePathAccess(path) == IF path \in denied THEN "access denied" ELSE "ok"

\* detectOmissionPlaceholders(content).length > 0
HasOmissionPlaceholders(c) == \E k \in 1..Len(c) : c[k] = Placeholder

\* detectLineEnding(content) === '\r\n'
DetectsCRLF(c) == \E k \in 1..(Len(c) - 1) : c[k] = "\r" /\ c[k + 1] = "\n"

RECURSIVE ToCRLFEveryLF(_)
\* variant: a carriage return in front of every line feed
ToCRLFEveryLF(c) ==
  IF Len(c) = 0 THEN <<>>
  ELSE IF c[1] = "\n" THEN <<"\r", "\n">> \o ToCRLFEveryLF(Tail(c))
       ELSE <<c[1]>> \o ToCRLFEveryLF(Tail(c))

RECURSIVE ToCRLF(_)
\* content.replace(/\r?\n/g, '\r\n')
ToCRLF(c) ==
  IF Len(c) = 0 THEN <<>>
  ELSE IF Len(c) >= 2 /\ c[1] = "\r" /\ c[2] = "\n"
       THEN <<"\r", "\n">> \o ToCRLF(SubSeq(c, 3, Len(c)))
       ELSE IF c[1] = "\n" THEN <<"\r", "\n">> \o ToCRLF(Tail(c))
            ELSE <<c[1]>> \o ToCRLF(Tail(c))

\* the line-ending policy of the write, and the content it writes
FinalContent(fileContent, originalContent, isNewFile) ==
  LET useCRLF == IF ~isNewFile /\ originalContent # <<>>
                 THEN DetectsCRLF(originalContent)
                 ELSE hostCRLF
  IN IF useCRLF THEN ToCRLF(fileContent) ELSE fileContent

\* the outcomes of the content corrector (ensureCorrectEdit /
\* ensureCorrectFileContent): the content unchanged, a corrected content, or
\* a failure; with correction disabled it passes the content through
CorrectorOutcomes ==
  IF disableLLMCorrection THEN {"pass"} ELSE {"pass", "correct", "fail"}

\* variant: the corrector is run on a target that could not be read
getCorrectedFileContentCorrectsUnreadable(file, readOk, proposedContent, corrector) ==
  IF file.kind = "absent"
  THEN [originalContent |-> <<>>, fileExists |-> FALSE, error |-> FALSE,
        correctedContent |-> IF corrector = "correct" THEN CorrectedByLLM
                             ELSE proposedContent,
        invoked |-> "ensureCorrectFileContent",
        throws |-> corrector = "fail"]
  ELSE IF file.kind # "file" \/ ~readOk
  THEN [originalContent |-> <<>>, fileExists |-> TRUE, error |-> TRUE,
        correctedContent |-> IF corrector = "correct" THEN CorrectedByLLM
                             ELSE proposedContent,
        invoked |-> "ensureCorrectEdit",
        throws |-> FALSE]
  ELSE [originalContent |-> StripBOM(file.content), fileExists |-> TRUE,
        error |-> FALSE,
        correctedContent |-> IF corrector = "correct" THEN CorrectedByLLM
                             ELSE proposedContent,
        invoked |-> "ensureCorrectEdit",
        throws |-> corrector = "fail"]
\* getCorrectedFileContent, given how the read and the corrector end
\* (invoked: the corrector it called, if any)
getCorrectedFileContent(file, readOk, proposedContent, corrector) ==
  IF file.kind = "absent"
  THEN [originalContent |-> <<>>, fileExists |-> FALSE, error |-> FALSE,
        correctedContent |-> IF corrector = "correct" THEN CorrectedByLLM
                             ELSE proposedContent,
        invoked |-> "ensureCorrectFileContent",
        throws |-> corrector = "fail"]
  ELSE IF file.kind # "file" \/ ~readOk
  THEN [originalContent |-> <<>>, fileExists |-> TRUE, error |-> TRUE,
        correctedContent |-> proposedContent,
        invoked |-> "none",
        throws |-> FALSE]
  ELSE [originalContent |-> StripBOM(file.content), fileExists |-> TRUE,
        error |-> FALSE,
        correctedContent |-> IF corrector = "correct" THEN CorrectedByLLM
                             ELSE proposedContent,
        invoked |-> "ensureCorrectEdit",
        throws |-> corrector = "fail"]

(***************************************************************************)
(* Bulk executor: the call and its validation.                             *)
(***************************************************************************)
\* an optional line number that was not given
NoLine == -1

Target(path, content, start, end) ==
  [file_path |-> path, content |-> content, start_line |-> start, end_line |-> end]

\* the line ranges a read call may name: none, a window, and three bad ones
LineRangeInputs == {<<NoLine, NoLine>>, <<1, 1>>, <<0, NoLine>>, <<NoLine, 0>>, <<2, 1>>}

\* the targets a write call may name: every path with one content, and one
\* path with every content
WriteTargetInputs ==
  {Target(p, <<"x", "\n">>, NoLine, NoLine) : p \in PathInputs}
  \cup {Target("a.txt", c, NoLine, NoLine) : c \in ContentInputs}
\* the targets a read call may name: every path without a range, and one
\* path with every range
ReadTargetInputs ==
  {Target(p, <<>>, NoLine, NoLine) : p \in PathInputs}
  \cup {Target("a.txt", <<>>, r[1], r[2]) : r \in LineRangeInputs}

TargetInputs(tool) == IF tool = "write" THEN WriteTargetInputs ELSE ReadTargetInputs

SeqsUpTo(S, n) == UNION {[1..k -> S] : k \in 0..n}

\* params.files, when given
NoFiles == [defined |-> FALSE, list |-> <<>>]
Files(list) == [defined |-> TRUE, list |-> list]

\* the parameter sets of a call: the single shape, or a files array
\* a call with both shapes populated: file_path (and content) next to files
BothShapes(tool) ==
  [single |-> Target("a.txt", IF tool = "write" THEN <<"x", "\n">> ELSE <<>>,
                     NoLine, NoLine),
   files |-> Files(<<Target("sub/b.txt", IF tool = "write" THEN <<"x", "\n">> ELSE <<>>,
                            NoLine, NoLine)>>)]

CallParams(tool) ==
  {[single |-> t, files |-> NoFiles] : t \in TargetInputs(tool)}
  \cup {[single |-> Target("", <<>>, NoLine, NoLine), files |-> Files(l)] :
          l \in SeqsUpTo(TargetInputs(tool), MaxTargets)}
  \cup {BothShapes(tool)}

\* params.files || [{ file_path: params.file_path, ... }]
FilesOf(params) ==
  IF params.files.defined THEN params.files.list ELSE <<params.single>>

\* what validation finds wrong with one target of a write call ("ok": nothing)
WriteTargetProblem(f) ==
  IF f.file_path = "" THEN "missing file_path"
  ELSE IF validatePathAccess(f.file_path) # "ok" THEN "access denied"
  ELSE IF fs[f.file_path].kind = "dir" THEN "is a directory"
  ELSE IF f.content # <<>> /\ HasOmissionPlaceholders(f.content)
       THEN "omission placeholders"
  ELSE "ok"

\* variant: start_line and end_line are not compared with each other
ReadTargetProblemUnordered(f) ==
  IF f.file_path = "" THEN "missing file_path"
  ELSE IF validatePathAccess(f.file_path) # "ok" THEN "access denied"
  ELSE IF f.start_line # NoLine /\ f.start_line < 1 THEN "start_line below 1"
  ELSE IF f.end_line # NoLine /\ f.end_line < 1 THEN "end_line below 1"
  ELSE IF f.file_path \in IgnoredPaths THEN "ignored"
  ELSE "ok"

\* what validation finds wrong with one target of a read call
ReadTargetProblem(f) ==
  IF f.file_path = "" THEN "missing file_path"
  ELSE IF validatePathAccess(f.file_path) # "ok" THEN "access denied"
  ELSE IF f.start_line # NoLine /\ f.start_line < 1 THEN "start_line below 1"
  ELSE IF f.end_line # NoLine /\ f.end_line < 1 THEN "end_line below 1"
  ELSE IF f.start_line # NoLine /\ f.end_line # NoLine /\ f.start_line > f.end_line
       THEN "start_line above end_line"
  ELSE IF f.file_path \in IgnoredPaths THEN "ignored"
  ELSE "ok"

TargetProblem(tool, f) ==
  IF tool = "write" THEN WriteTargetProblem(f) ELSE ReadTargetProblem(f)

\* variant: a target with a problem is skipped, the others are accepted
FirstProblemIgnoringTargets(tool, files) == [index |-> 0, problem |-> "ok"]
\* validateToolParamValues: the loop over the targets returns at the first
\* target with a problem (index 0: none has one)
FirstProblem(tool, files) ==
  IF \A k \in 1..Len(files) : TargetProblem(tool, files[k]) = "ok"
  THEN [index |-> 0, problem |-> "ok"]
  ELSE LET k == CHOOSE j \in 1..Len(files) :
                  /\ TargetProblem(tool, files[j]) # "ok"
                  /\ \A m \in 1..(j - 1) : TargetProblem(tool, files[m]) = "ok"
       IN [index |-> k, problem |-> TargetProblem(tool, files[k])]

\* ToolCallConfirmationDetails, or false (type "none")
NoDetails == [type |-> "none", originalContent |-> <<>>, newContent |-> <<>>,
              ideConfirmation |-> FALSE, count |-> 0]

NoCall == [phase |-> "idle", tool |-> "none",
           params |-> [single |-> Target("", <<>>, NoLine, NoLine), files |-> NoFiles],
           rejection |-> [index |-> 0, problem |-> "ok"],
           details |-> NoDetails, prompt |-> "none", outcome |-> "none"]

\* tool.build(params): validation, then createInvocation
Build(tool, params) ==
  /\ call.phase = "idle"
  /\ call' = [phase |-> IF FirstProblem(tool, FilesOf(params)).problem = "ok"
                        THEN "built" ELSE "rejected",
              tool |-> tool, params |-> params,
              rejection |-> FirstProblem(tool, FilesOf(params)),
              details |-> NoDetails, prompt |-> "none", outcome |-> "none"]
  /\ UNCHANGED <<fs, dirs, denied, hostCRLF, disableLLMCorrection, tgt, settled, ret>>
  /\ UNCHANGED memVars
  /\ UNCHANGED diffVars
  /\ UNCHANGED serviceVars /\ UNCHANGED filenameVars
  /\ UNCHANGED gateVars

\* the workspace changes under a built invocation: a path is no longer allowed
RevokeAccess(path) ==
  /\ call.phase = "built"
  /\ path \notin denied
  /\ denied' = denied \cup {path}
  /\ UNCHANGED <<fs, dirs, hostCRLF, disableLLMCorrection, call, tgt, settled, ret>>
  /\ UNCHANGED memVars
  /\ UNCHANGED diffVars
  /\ UNCHANGED serviceVars /\ UNCHANGED filenameVars
  /\ UNCHANGED gateVars

(***************************************************************************)
(* Bulk executor: execute().  Each target is an async callback; the        *)
(* callbacks interleave at their awaits.                                   *)
(***************************************************************************)
NoText == [kind |-> "none", content |-> <<>>]
NoTargetResult == [settled |-> FALSE, error |-> FALSE, file_path |-> "", text |-> NoText]
\* { error, file_path }
ErrorResult(path, reason) ==
  [settled |-> TRUE, error |-> TRUE, file_path |-> path,
   text |-> [kind |-> reason, content |-> <<>>]]
\* { file_path, llmContent } (write) and { file_path, content } (read)
SuccessResult(path, kind, content) ==
  [settled |-> TRUE, error |-> FALSE, file_path |-> path,
   text |-> [kind |-> kind, content |-> content]]

\* one callback of filesToWrite.map / filesToRead.map: where it stands, what
\* it holds, its result, and how often it touched the environment
Promise(pc, result) ==
  [pc |-> pc, originalContent |-> <<>>, fileContent |-> <<>>, isNewFile |-> FALSE,
   result |-> result, reads |-> 0, mkdirs |-> 0, writes |-> 0, telemetry |-> 0]

filesToWrite == FilesOf(call.params)

Settle(k, result) == [tgt[k] EXCEPT !.pc = "done", !.result = result]

\* execute() up to the first await of every callback: the access check of
\* each target, in input order
ExecuteFrom(phases) ==
  /\ call.phase \in phases
  /\ call' = [call EXCEPT !.phase = "running"]
  /\ tgt' = [k \in 1..Len(filesToWrite) |->
               IF validatePathAccess(filesToWrite[k].file_path) # "ok"
               THEN Promise("done", ErrorResult(filesToWrite[k].file_path, "access denied"))
               ELSE Promise(IF call.tool = "write" THEN "reconcile" ELSE "process",
                            NoTargetResult)]
  /\ settled' = SelectSeq([k \in 1..Len(filesToWrite) |-> k],
                          LAMBDA k : validatePathAccess(filesToWrite[k].file_path) # "ok")
  /\ UNCHANGED <<fs, dirs, denied, hostCRLF, disableLLMCorrection, ret>>
  /\ UNCHANGED memVars
  /\ UNCHANGED diffVars
  /\ UNCHANGED serviceVars /\ UNCHANGED filenameVars
  /\ UNCHANGED gateVars

\* execute() called on a built invocation, confirmed or not
Execute == ExecuteFrom({"built", "approved"})

\* write: await getCorrectedFileContent(...), which is outside the try
WriteReconcile(k, readOk, corrector) ==
  /\ k \in 1..Len(tgt)
  /\ tgt[k].pc = "reconcile"
  /\ corrector \in CorrectorOutcomes
  /\ LET f == filesToWrite[k]
         r == getCorrectedFileContent(fs[f.file_path], readOk, f.content, corrector)
         t == [tgt[k] EXCEPT !.reads = @ + 1]
     IN IF r.error
        THEN /\ tgt' = [tgt EXCEPT ![k] = [t EXCEPT !.pc = "done",
                                             !.result = ErrorResult(f.file_path, "read error")]]
             /\ settled' = Append(settled, k)
        ELSE IF r.throws
        THEN /\ tgt' = [tgt EXCEPT ![k] = [t EXCEPT !.pc = "threw"]]
             /\ settled' = Append(settled, k)
        ELSE /\ tgt' = [tgt EXCEPT ![k] = [t EXCEPT !.pc = "mkdir",
                                             !.originalContent = r.originalContent,
                                             !.fileContent = r.correctedContent,
                                             !.isNewFile = ~r.fileExists]]
             /\ UNCHANGED settled
  /\ UNCHANGED <<fs, dirs, denied, hostCRLF, disableLLMCorrection, call, ret>>
  /\ UNCHANGED memVars
  /\ UNCHANGED diffVars
  /\ UNCHANGED serviceVars /\ UNCHANGED filenameVars
  /\ UNCHANGED gateVars

\* write: fsPromises.access(dirName), and mkdir when that fails
WriteMkdir(k, mkdirOk) ==
  /\ k \in 1..Len(tgt)
  /\ tgt[k].pc = "mkdir"
  /\ LET f == filesToWrite[k]
         dirName == DirOf(f.file_path)
     IN IF dirName \in dirs
        THEN /\ tgt' = [tgt EXCEPT ![k].pc = "write"]
             /\ UNCHANGED <<dirs, settled>>
        ELSE IF mkdirOk
        THEN /\ dirs' = dirs \cup {dirName}
             /\ tgt' = [tgt EXCEPT ![k].pc = "write", ![k].mkdirs = @ + 1]
             /\ UNCHANGED settled
        ELSE /\ tgt' = [tgt EXCEPT ![k] = Settle(k, ErrorResult(f.file_path, "mkdir error"))]
             /\ settled' = Append(settled, k)
             /\ UNCHANGED dirs
  /\ UNCHANGED <<fs, denied, hostCRLF, disableLLMCorrection, call, ret>>
  /\ UNCHANGED memVars
  /\ UNCHANGED diffVars
  /\ UNCHANGED serviceVars /\ UNCHANGED filenameVars
  /\ UNCHANGED gateVars

\* write: the line-ending policy, writeTextFile, the telemetry event and the
\* success entry; anything thrown here is caught as the target's error
WriteFile(k, writeOk, telemetryOk) ==
  /\ k \in 1..Len(tgt)
  /\ tgt[k].pc = "write"
  /\ LET f == filesToWrite[k]
         finalContent == FinalContent(tgt[k].fileContent, tgt[k].originalContent,
                                      tgt[k].isNewFile)
     IN IF ~writeOk
        THEN /\ tgt' = [tgt EXCEPT ![k] = Settle(k, ErrorResult(f.file_path, "write error"))]
             /\ UNCHANGED fs
        ELSE /\ fs' = [fs EXCEPT ![f.file_path] = FileOf(StripBOM(finalContent))]
             /\ tgt' = [tgt EXCEPT ![k] =
                  [tgt[k] EXCEPT
                     !.pc = "done", !.writes = @ + 1,
                     !.telemetry = IF telemetryOk THEN @ + 1 ELSE @,
                     !.result = IF telemetryOk
                                THEN SuccessResult(f.file_path,
                                       IF tgt[k].isNewFile THEN "Created" ELSE "Updated",
                                       finalContent)
                                ELSE ErrorResult(f.file_path, "telemetry error")]]
  /\ settled' = Append(settled, k)
  /\ UNCHANGED <<dirs, denied, hostCRLF, disableLLMCorrection, call, ret>>
  /\ UNCHANGED memVars
  /\ UNCHANGED diffVars
  /\ UNCHANGED serviceVars /\ UNCHANGED filenameVars
  /\ UNCHANGED gateVars

\* read: await processSingleFileContent(...), then the telemetry event, which
\* no try encloses
ReadProcess(k, readOk, telemetryOk) ==
  /\ k \in 1..Len(tgt)
  /\ tgt[k].pc = "process"
  /\ LET f == filesToWrite[k]
         t == [tgt[k] EXCEPT !.reads = @ + 1]
     IN IF fs[f.file_path].kind # "file" \/ ~readOk
        THEN tgt' = [tgt EXCEPT ![k] = [t EXCEPT !.pc = "done",
                                          !.result = ErrorResult(f.file_path, "read error")]]
        ELSE IF ~telemetryOk
        THEN tgt' = [tgt EXCEPT ![k] = [t EXCEPT !.pc = "threw"]]
        ELSE tgt' = [tgt EXCEPT ![k] =
               [t EXCEPT !.pc = "done", !.telemetry = @ + 1,
                         !.result = SuccessResult(f.file_path, "content",
                                                  StripBOM(fs[f.file_path].content))]]
  /\ settled' = Append(settled, k)
  /\ UNCHANGED <<fs, dirs, denied, hostCRLF, disableLLMCorrection, call, ret>>
  /\ UNCHANGED memVars
  /\ UNCHANGED diffVars
  /\ UNCHANGED serviceVars /\ UNCHANGED filenameVars
  /\ UNCHANGED gateVars

\* variant: the results in the order the promises settled
ResultsAsSettled == [k \in 1..Len(settled) |-> tgt[settled[k]].result]
\* await Promise.all(writePromises): the results, in input order
results == [k \in 1..Len(tgt) |-> tgt[k].result]

successful == SelectSeq(results, LAMBDA r : ~r.error)
failed == SelectSeq(results, LAMBDA r : r.error)

\* the lines of llmContent: the success entries, then the error block
Entry(kind, r) == [kind |-> kind, file_path |-> r.file_path, text |-> r.text]
ErrorsHeader == [kind |-> "Errors:", file_path |-> "", text |-> NoText]
llmContent ==
  [k \in 1..Len(successful) |-> Entry("success", successful[k])]
  \o (IF Len(failed) > 0
      THEN <<ErrorsHeader>> \o [k \in 1..Len(failed) |-> Entry("failure", failed[k])]
      ELSE <<>>)

\* variant: the success phrasing whenever there are results
DisplayOfResults(n) ==
  IF Len(results) > 0 THEN [phrase |-> "file(s)", count |-> n]
  ELSE [phrase |-> "Failed", count |-> 0]
\* `Wrote ${n} file(s).` / `Read ${n} file(s).`, else `Failed to ... files.`
returnDisplay(n) ==
  IF n > 0 THEN [phrase |-> "file(s)", count |-> n]
  ELSE [phrase |-> "Failed", count |-> 0]

NoReturn == [returned |-> FALSE, llmContent |-> <<>>,
             returnDisplay |-> [phrase |-> "none", count |-> 0]]

\* Promise.all resolved: execute() aggregates and returns
Return ==
  /\ call.phase = "running"
  /\ \A k \in 1..Len(tgt) : tgt[k].pc = "done"
  /\ ret' = [returned |-> TRUE, llmContent |-> llmContent,
             returnDisplay |-> returnDisplay(Len(successful))]
  /\ call' = [call EXCEPT !.phase = "returned"]
  /\ UNCHANGED <<fs, dirs, denied, hostCRLF, disableLLMCorrection, tgt, settled>>
  /\ UNCHANGED memVars
  /\ UNCHANGED diffVars
  /\ UNCHANGED serviceVars /\ UNCHANGED filenameVars
  /\ UNCHANGED gateVars

\* a callback rejected: Promise.all rejects and execute() throws, while the
\* other callbacks go on
Throw ==
  /\ call.phase = "running"
  /\ \E k \in 1..Len(tgt) : tgt[k].pc = "threw"
  /\ call' = [call EXCEPT !.phase = "threw"]
  /\ UNCHANGED <<fs, dirs, denied, hostCRLF, disableLLMCorrection, tgt, settled, ret>>
  /\ UNCHANGED memVars
  /\ UNCHANGED diffVars
  /\ UNCHANGED serviceVars /\ UNCHANGED filenameVars
  /\ UNCHANGED gateVars

\* the contents a file may have before the call
OldContents == {<<"o", "\n">>, <<"o", "\r", "\n">>}

(***************************************************************************)
(* Write tool: approval.                                                   *)
(***************************************************************************)

ApprovalModes == {"DEFAULT", "AUTO_EDIT"}

\* what the IDE diff may resolve to: rejected, or accepted with the content
\* of the editor, which may be empty
IdeResults ==
  {[status |-> "rejected", content |-> <<>>]}
  \cup {[status |-> "accepted", content |-> c] : c \in {<<>>, <<"i", "\n">>}}

EditDetails(originalContent, correctedContent, ide) ==
  [type |-> "edit", originalContent |-> originalContent,
   newContent |-> correctedContent, ideConfirmation |-> ide, count |-> 1]

InfoDetails(n) == [NoDetails EXCEPT !.type = "info", !.count = n]

\* WriteFileToolInvocation.toolLocations: the paths the invocation names
toolLocations(params) ==
  IF params.files.defined /\ Len(params.files.list) > 0
  THEN [k \in 1..Len(params.files.list) |-> params.files.list[k].file_path]
  ELSE <<params.single.file_path>>

\* WriteFileToolInvocation.getDescription: 'Writing N files in parallel' or
\* 'Writing to <path>'
getDescription(params) ==
  IF params.files.defined /\ Len(params.files.list) > 0
  THEN [kind |-> "batch", count |-> Len(params.files.list), path |-> ""]
  ELSE [kind |-> "single", count |-> 1, path |-> params.single.file_path]

\* WriteFileToolInvocation.getConfirmationDetails: the details, or false,
\* or a rejection when the corrector throws or no file_path was given
getConfirmationDetailsBatchFirst(params, mode, readOk, corrector, ide) ==
  IF params.files.defined /\ Len(params.files.list) > 0
  THEN [throws |-> FALSE, details |-> InfoDetails(Len(params.files.list))]
  ELSE IF mode = "AUTO_EDIT"
  THEN [throws |-> FALSE, details |-> NoDetails]
  ELSE IF params.single.file_path = ""
  THEN [throws |-> TRUE, details |-> NoDetails]
  ELSE LET r == getCorrectedFileContent(fs[params.single.file_path], readOk,
                                        params.single.content, corrector)
       IN IF r.error THEN [throws |-> FALSE, details |-> NoDetails]
          ELSE IF r.throws THEN [throws |-> TRUE, details |-> NoDetails]
          ELSE [throws |-> FALSE,
                details |-> EditDetails(r.originalContent, r.correctedContent, ide)]

getConfirmationDetailsBatchDiff(params, mode, readOk, corrector, ide) ==
  IF mode = "AUTO_EDIT"
  THEN [throws |-> FALSE, details |-> NoDetails]
  ELSE LET f == IF params.files.defined /\ Len(params.files.list) > 0
                THEN params.files.list[1] ELSE params.single
       IN IF f.file_path = ""
          THEN [throws |-> TRUE, details |-> NoDetails]
          ELSE LET r == getCorrectedFileContent(fs[f.file_path], readOk, f.content, corrector)
               IN IF r.error THEN [throws |-> FALSE, details |-> NoDetails]
                  ELSE IF r.throws THEN [throws |-> TRUE, details |-> NoDetails]
                  ELSE [throws |-> FALSE,
                        details |-> EditDetails(r.originalContent, r.correctedContent, ide)]

getConfirmationDetails(params, mode, readOk, corrector, ide) ==
  IF mode = "AUTO_EDIT"
  THEN [throws |-> FALSE, details |-> NoDetails]
  ELSE IF params.files.defined /\ Len(params.files.list) > 0
  THEN [throws |-> FALSE, details |-> InfoDetails(Len(params.files.list))]
  ELSE IF params.single.file_path = ""
  THEN [throws |-> TRUE, details |-> NoDetails]
  ELSE LET r == getCorrectedFileContent(fs[params.single.file_path], readOk,
                                        params.single.content, corrector)
       IN IF r.error THEN [throws |-> FALSE, details |-> NoDetails]
          ELSE IF r.throws THEN [throws |-> TRUE, details |-> NoDetails]
          ELSE [throws |-> FALSE,
                details |-> EditDetails(r.originalContent, r.correctedContent, ide)]

\* Config.isLeavingWorkspace: some target of the call is outside the workspace
isLeavingWorkspace(params) ==
  \E k \in 1..Len(FilesOf(params)) : FilesOf(params)[k].file_path \in OutsidePaths

\* the scheduler's decision: the tool's own confirmation, else a prompt for
\* leaving the workspace, else none
PromptFor(params, details) ==
  IF details.type # "none" THEN "tool"
  ELSE IF isLeavingWorkspace(params) THEN "workspace"
  ELSE "none"

WriteConfirmSavesPreview(readOk, corrector, ide) ==
  /\ call.phase = "built"
  /\ call.tool = "write"
  /\ corrector \in CorrectorOutcomes
  /\ LET g == getConfirmationDetails(call.params, approvalMode, readOk, corrector, ide)
         prompt == PromptFor(call.params, g.details)
     IN /\ call' = IF g.throws
                   THEN [call EXCEPT !.phase = "confirmFailed"]
                   ELSE [call EXCEPT !.details = g.details,
                                     !.prompt = prompt,
                                     !.phase = IF prompt = "none" THEN "approved"
                                               ELSE "awaiting"]
        /\ fs' = IF g.details.type = "edit"
                 THEN [fs EXCEPT ![call.params.single.file_path] =
                                   FileOf(g.details.newContent)]
                 ELSE fs
  /\ UNCHANGED <<dirs, denied, hostCRLF, disableLLMCorrection, tgt, settled, ret>>
  /\ UNCHANGED memVars
  /\ UNCHANGED diffVars
  /\ UNCHANGED serviceVars /\ UNCHANGED filenameVars
  /\ UNCHANGED gateVars

\* shouldConfirmExecute: the approval step of a built write invocation
WriteConfirm(readOk, corrector, ide) ==
  /\ call.phase = "built"
  /\ call.tool = "write"
  /\ corrector \in CorrectorOutcomes
  /\ LET g == getConfirmationDetails(call.params, approvalMode, readOk, corrector, ide)
         prompt == PromptFor(call.params, g.details)
     IN call' = IF g.throws
                THEN [call EXCEPT !.phase = "confirmFailed"]
                ELSE [call EXCEPT !.details = g.details,
                                  !.prompt = prompt,
                                  !.phase = IF prompt = "none" THEN "approved"
                                            ELSE "awaiting"]
  /\ UNCHANGED <<fs, dirs, denied, hostCRLF, disableLLMCorrection, tgt, settled, ret>>
  /\ UNCHANGED memVars
  /\ UNCHANGED diffVars
  /\ UNCHANGED serviceVars /\ UNCHANGED filenameVars
  /\ UNCHANGED gateVars

WriteConfirmationOutcomes == {"ProceedOnce", "ProceedAlways", "Cancel"}

\* the details' onConfirm, then the scheduler's handling of the outcome
WriteOnConfirm(outcome, ideResult) ==
  /\ call.phase = "awaiting"
  /\ outcome \in WriteConfirmationOutcomes
  /\ LET accepted == /\ call.details.type = "edit"
                     /\ call.details.ideConfirmation
                     /\ ideResult.status = "accepted"
                     /\ ideResult.content # <<>>
         params == IF accepted
                   THEN [call.params EXCEPT !.single.content = ideResult.content]
                   ELSE call.params
     IN call' = [call EXCEPT !.params = params,
                             !.outcome = outcome,
                             !.phase = IF outcome = "Cancel" THEN "cancelled"
                                       ELSE "approved"]
  /\ alwaysPaths' = IF outcome = "ProceedAlways" /\ call.details.type = "edit"
                    THEN alwaysPaths \cup {call.params.single.file_path}
                    ELSE alwaysPaths
  /\ UNCHANGED <<fs, dirs, denied, hostCRLF, disableLLMCorrection, tgt, settled, ret>>
  /\ UNCHANGED memVars
  /\ UNCHANGED diffVars
  /\ UNCHANGED serviceVars /\ UNCHANGED filenameVars
  /\ UNCHANGED <<approvalMode, callNo, aborted>>

MaxCalls == 2

CallOver ==
  /\ call.phase \in {"rejected", "returned", "threw", "cancelled", "confirmFailed"}
  /\ \A k \in 1..Len(tgt) : tgt[k].pc \in {"done", "threw"}

\* the next call of the session: a new invocation is built from scratch
NextCall ==
  /\ CallOver
  /\ callNo < MaxCalls
  /\ callNo' = callNo + 1
  /\ call' = NoCall
  /\ tgt' = <<>>
  /\ settled' = <<>>
  /\ ret' = NoReturn
  /\ aborted' = FALSE
  /\ UNCHANGED <<fs, dirs, denied, hostCRLF, disableLLMCorrection>>
  /\ UNCHANGED memVars
  /\ UNCHANGED diffVars
  /\ UNCHANGED serviceVars /\ UNCHANGED filenameVars
  /\ UNCHANGED <<approvalMode, alwaysPaths>>

(***************************************************************************)
(* File system service.                                                    *)
(***************************************************************************)

\* the longest text written or found in a file
MaxLen == 3

\* the texts: every sequence of byte-order marks and letters
Texts == UNION {[1..n -> {BOM, "x"}] : n \in 0..MaxLen}

NoRead == [defined |-> FALSE, content |-> <<>>]

\* StandardFileSystemService.readTextFile: the content, or the rejection of
\* fs.readFile
readTextFile(file) ==
  IF file.kind = "file"
  THEN [defined |-> TRUE, content |-> StripBOM(file.content)]
  ELSE NoRead

\* StandardFileSystemService.writeTextFile: the file that fs.writeFile leaves
writeTextFile(content) == FileOf(StripBOM(content))

ServiceRead(path) ==
  /\ fs[path].kind = "file"
  /\ lastRead' = readTextFile(fs[path])
  /\ UNCHANGED <<fs, dirs, denied, hostCRLF, disableLLMCorrection, call, tgt, settled, ret>>
  /\ UNCHANGED filenameVars
  /\ UNCHANGED gateVars
  /\ UNCHANGED diffVars
  /\ UNCHANGED memVars

ServiceWrite(path, content) ==
  /\ fs' = [fs EXCEPT ![path] = writeTextFile(content)]
  /\ UNCHANGED <<dirs, denied, hostCRLF, disableLLMCorrection, call, tgt, settled, ret>>
  /\ UNCHANGED gateVars
  /\ UNCHANGED diffVars
  /\ UNCHANGED serviceVars /\ UNCHANGED filenameVars
  /\ UNCHANGED memVars

(***************************************************************************)
(* Context file names: setGeminiMdFilename and its two getters.            *)
(***************************************************************************)
\* the longest array of names a caller passes
MaxNames == 2

\* export const DEFAULT_CONTEXT_FILENAME = 'MEMORIES.md'
DEFAULT_CONTEXT_FILENAME == <<"MEMORIES.md">>
\* the other name getAllGeminiMdFilenames always lists
GEMINI_MD == <<"GEMINI.md">>

\* the names a caller may pass: the two built-in ones, two custom ones, one
\* with a leading blank, a blank one and the empty string
NameInputs ==
  {DEFAULT_CONTEXT_FILENAME, GEMINI_MD, <<"CUSTOM_CONTEXT.md">>, <<"ANOTHER_CONTEXT.md">>,
   <<" ", "CUSTOM_CONTEXT.md">>, <<" ">>, <<>>}

\* a string | string[] value: a string is held as the one element of list
StringValue(name) == [array |-> FALSE, list |-> <<name>>]
ArrayValue(names) == [array |-> TRUE, list |-> names]

\* the arguments of setGeminiMdFilename
FilenameInputs ==
  {StringValue(n) : n \in NameInputs}
  \cup {ArrayValue(l) : l \in UNION {[1..k -> NameInputs] : k \in 0..MaxNames}}

NoSet == [defined |-> FALSE, value |-> StringValue(<<>>)]

\* setGeminiMdFilename: the value of currentGeminiMdFilename afterwards
setGeminiMdFilename(current, newFilename) ==
  IF newFilename.array
  THEN IF Len(newFilename.list) > 0
       THEN ArrayValue([i \in 1..Len(newFilename.list) |-> Trim(newFilename.list[i])])
       ELSE current
  ELSE IF newFilename.list[1] # <<>> /\ Trim(newFilename.list[1]) # <<>>
       THEN StringValue(Trim(newFilename.list[1]))
       ELSE current

\* getCurrentGeminiMdFilename: the string, or the first element of the array
getCurrentGeminiMdFilename(current) == current.list[1]

\* new Set(...).add(f) for each f of names, in order: insertion order, no
\* name twice
RECURSIVE AddAll(_, _)
AddAll(filenames, names) ==
  IF Len(names) = 0 THEN filenames
  ELSE AddAll(IF \E k \in 1..Len(filenames) : filenames[k] = Head(names)
              THEN filenames ELSE Append(filenames, Head(names)),
              Tail(names))

\* getAllGeminiMdFilenames: the two built-in names, then the configured ones
getAllGeminiMdFilenames(current) ==
  AddAll(<<GEMINI_MD, DEFAULT_CONTEXT_FILENAME>>, current.list)

SetFilename(newFilename) ==
  /\ currentGeminiMdFilename' = setGeminiMdFilename(currentGeminiMdFilename, newFilename)
  /\ lastSet' = [defined |-> TRUE, value |-> newFilename]
  /\ UNCHANGED <<fs, dirs, denied, hostCRLF, disableLLMCorrection, call, tgt, settled, ret>>
  /\ UNCHANGED gateVars
  /\ UNCHANGED diffVars
  /\ UNCHANGED serviceVars
  /\ UNCHANGED memVars

InitFilenameIdle ==
  /\ currentGeminiMdFilename = StringValue(DEFAULT_CONTEXT_FILENAME)
  /\ lastSet = NoSet

(***************************************************************************)
(* Diff tool.                                                              *)
(***************************************************************************)

\* the bytes of a file: a letter, and two bytes that are not valid UTF-8
InvalidBytes == {"xFF", "xFE"}
ByteContents == {<<"x">>, <<"y">>, <<"xFF">>, <<"xFE">>}

\* fs.readFile(path, 'utf8'): a byte that is not valid UTF-8 decodes to U+FFFD
DecodeUtf8(bytes) ==
  [i \in 1..Len(bytes) |-> IF bytes[i] \in InvalidBytes THEN "uFFFD" ELSE bytes[i]]

\* the relative paths of the files of a directory, in the order of
\* Array.prototype.sort; the last one lies in a subdirectory
EntryNames == <<"a.txt", "c.txt", "s/d.txt">>
Names == {EntryNames[i] : i \in 1..Len(EntryNames)}
NoEntry == [present |-> FALSE, bytes |-> <<>>]
EntryOf(bytes) == [present |-> TRUE, bytes |-> bytes]

\* what a path resolves to: nothing, a file, a directory of files
Missing == [kind |-> "missing", bytes |-> <<>>, entries |-> [n \in Names |-> NoEntry]]
FileNode(bytes) == [Missing EXCEPT !.kind = "file", !.bytes = bytes]
DirNode(entries) == [Missing EXCEPT !.kind = "dir", !.entries = entries]

\* DiffToolParams.recursive: true, false, or not given
RecursiveInputs == {"true", "false", "undefined"}

NoDiffResult == [kind |-> "none", message |-> "", onlyIn1 |-> <<>>, onlyIn2 |-> <<>>,
                 modified |-> <<>>, identical |-> FALSE, old |-> <<>>, new |-> <<>>]
NoDiff == [phase |-> "idle", recursive |-> "undefined", result |-> NoDiffResult]

\* llmContent 'Error: <message>'
DiffError(message) == [NoDiffResult EXCEPT !.kind = "error", !.message = message]

\* getFiles: readdir keeps the files of the root, fdir crawls every file
getFiles(node, recursive) ==
  {n \in Names : /\ node.entries[n].present
                  /\ (recursive \/ n # "s/d.txt")}

\* [...set].filter(keep).sort()
Sorted(S) == SelectSeq(EntryNames, LAMBDA n : n \in S)

\* diffFiles
diffFiles(node1, node2, readOk) ==
  IF ~readOk THEN [throws |-> TRUE, result |-> NoDiffResult]
  ELSE LET content1 == DecodeUtf8(node1.bytes)
           content2 == DecodeUtf8(node2.bytes)
       IN [throws |-> FALSE,
           result |-> IF content1 = content2
                      THEN [NoDiffResult EXCEPT !.kind = "Files are identical."]
                      ELSE [NoDiffResult EXCEPT !.kind = "patch",
                                                !.old = content1, !.new = content2]]

\* diffDirectories
diffDirectories(node1, node2, recursiveParam, readOk) ==
  LET recursive == recursiveParam # "false"
      files1 == getFiles(node1, recursive)
      files2 == getFiles(node2, recursive)
      onlyIn1 == Sorted(files1 \ files2)
      onlyIn2 == Sorted(files2 \ files1)
      inBoth == Sorted(files1 \cap files2)
      modified == SelectSeq(inBoth,
                    LAMBDA f : DecodeUtf8(node1.entries[f].bytes)
                               # DecodeUtf8(node2.entries[f].bytes))
  IN IF ~readOk
     THEN [throws |-> TRUE, result |-> NoDiffResult]
     ELSE [throws |-> FALSE,
           result |-> [NoDiffResult EXCEPT
                         !.kind = "Directory comparison",
                         !.onlyIn1 = onlyIn1, !.onlyIn2 = onlyIn2,
                         !.modified = modified,
                         !.identical = /\ Len(onlyIn1) = 0 /\ Len(onlyIn2) = 0
                                       /\ Len(modified) = 0]]

\* DiffTool.createInvocation
DiffBuild(recursive) ==
  /\ diff.phase = "idle"
  /\ diff' = [diff EXCEPT !.phase = "built", !.recursive = recursive]
  /\ UNCHANGED tree
  /\ UNCHANGED <<fs, dirs, denied, hostCRLF, disableLLMCorrection, call, tgt, settled, ret>>
  /\ UNCHANGED gateVars
  /\ UNCHANGED serviceVars /\ UNCHANGED filenameVars
  /\ UNCHANGED memVars

\* variant: a failed read escapes execute()
DiffExecuteUncaught(statOk, readOk) ==
  /\ diff.phase = "built"
  /\ LET node1 == tree[1]
         node2 == tree[2]
         r == IF node1.kind = "dir" /\ node2.kind = "dir"
              THEN diffDirectories(node1, node2, diff.recursive, readOk)
              ELSE diffFiles(node1, node2, readOk)
     IN diff' =
          IF ~statOk \/ node1.kind = "missing" \/ node2.kind = "missing"
          THEN [diff EXCEPT !.phase = "returned", !.result = DiffError("stat failed")]
          ELSE IF node1.kind # node2.kind
          THEN [diff EXCEPT !.phase = "returned",
                            !.result = DiffError("Cannot compare a file with a directory.")]
          ELSE IF r.throws THEN [diff EXCEPT !.phase = "threw"]
          ELSE [diff EXCEPT !.phase = "returned", !.result = r.result]
  /\ UNCHANGED tree
  /\ UNCHANGED <<fs, dirs, denied, hostCRLF, disableLLMCorrection, call, tgt, settled, ret>>
  /\ UNCHANGED gateVars
  /\ UNCHANGED serviceVars /\ UNCHANGED filenameVars
  /\ UNCHANGED memVars

\* DiffToolInvocation.execute: stat both, compare, and the catch around it
DiffExecute(statOk, readOk) ==
  /\ diff.phase = "built"
  /\ LET node1 == tree[1]
         node2 == tree[2]
         r == IF node1.kind = "dir" /\ node2.kind = "dir"
              THEN diffDirectories(node1, node2, diff.recursive, readOk)
              ELSE diffFiles(node1, node2, readOk)
     IN diff' = [diff EXCEPT
          !.phase = "returned",
          !.result =
            IF ~statOk \/ node1.kind = "missing" \/ node2.kind = "missing"
            THEN DiffError("stat failed")
            ELSE IF node1.kind # node2.kind
            THEN DiffError("Cannot compare a file with a directory.")
            ELSE IF r.throws THEN DiffError("read failed")
            ELSE r.result]
  /\ UNCHANGED tree
  /\ UNCHANGED <<fs, dirs, denied, hostCRLF, disableLLMCorrection, call, tgt, settled, ret>>
  /\ UNCHANGED gateVars
  /\ UNCHANGED serviceVars /\ UNCHANGED filenameVars
  /\ UNCHANGED memVars

InitDiffIdle ==
  /\ tree = <<Missing, Missing>>
  /\ diff = NoDiff
  /\ lastRead = NoRead
  /\ InitFilenameIdle

InitBatchCore ==
  /\ dirs = {".", "..", "dir"}
  /\ denied = {"secret.txt"}
  /\ call = NoCall
  /\ tgt = <<>>
  /\ settled = <<>>
  /\ ret = NoReturn
  /\ callNo = 1
  /\ alwaysPaths = {}
  /\ aborted = FALSE

InitBatchState ==
  /\ InitDiffIdle
  /\ InitBatchCore

\* no bulk call is made
InitBatchIdle ==
  /\ fs = [p \in FsPaths |-> IF p = "dir" THEN Directory ELSE Absent]
  /\ hostCRLF = FALSE
  /\ disableLLMCorrection = FALSE
  /\ approvalMode = "DEFAULT"
  /\ InitBatchState

InitBatch ==
  /\ fs \in {[p \in FsPaths |->
                IF p = "dir" THEN Directory ELSE IF p = "a.txt" THEN a ELSE Absent] :
             a \in {Absent} \cup {FileOf(c) : c \in OldContents}}
  /\ hostCRLF \in BOOLEAN
  /\ disableLLMCorrection \in BOOLEAN
  /\ approvalMode = "DEFAULT"
  /\ InitBatchState

(***************************************************************************)
(* Fact store: specifications.                                             *)
(***************************************************************************)
\* the records of ids S, in increasing order, each with fact f
RECURSIVE MemoriesOf(_, _)
MemoriesOf(S, f) ==
  IF S = {} THEN <<>>
  ELSE LET m == CHOOSE x \in S : \A y \in S : y >= x
       IN <<[id |-> m, fact |-> f]>> \o MemoriesOf(S \ {m}, f)

InitMemState ==
  /\ inv = [i \in Slots |-> IdleInv]
  /\ allowlist = {}
  /\ userEdited = FALSE
  /\ freedNonMax = {}
  /\ saved = <<>>

\* the store is absent or empty
InitMem ==
  /\ memFile \in {NoFile, File(<<>>)}
  /\ InitMemState
  /\ InitBatchIdle

\* the store is absent, empty, or one this system wrote earlier
InitMemAny ==
  /\ memFile \in {NoFile, File(<<>>)}
       \cup {File(formatMemories(MemoriesOf(S, <<"a">>))) : S \in SUBSET (1..MaxId)}
  /\ InitMemState
  /\ InitBatchIdle

vars == <<memVars, batchVars>>

\* invocations one at a time, on the computed path: each runs to its end
\* before the next is built
NextMemSeq ==
  \/ \E p \in MemParamSpace : MemBuild(1, p)
  \/ MemConfirm(1)
  \/ \E outcome \in {"ProceedOnce", "Cancel"} : MemOnConfirm(1, outcome)
  \/ MemExecute(1)

SpecMemSeq == InitMem /\ [][NextMemSeq]_vars

\* invocations interleaved at their handlers, each slot used once
NextMem ==
  \/ \E i \in Slots, p \in MemConcurrentParamSpace :
       inv[i].phase = "idle" /\ MemBuild(i, p)
  \/ \E i \in Slots : MemConfirm(i)
  \/ \E i \in Slots, outcome \in ConfirmationOutcomes : MemOnConfirm(i, outcome)
  \/ \E i \in Slots : MemExecute(i)

SpecMem == InitMemAny /\ [][NextMem]_vars

(***************************************************************************)
(* Bulk executor: specification.  One call, of either tool, against any    *)
(* initial file system.                                                    *)
(***************************************************************************)
\* the paths whose access may be withdrawn under a built invocation
RevocablePaths == {"a.txt"}

InitBulk ==
  /\ memFile = NoFile
  /\ InitMemState
  /\ InitBatch

NextBulk ==
  \/ \E tool \in {"write", "read"} :
       \E params \in (IF call.phase = "idle" THEN CallParams(tool) ELSE {}) :
         Build(tool, params)
  \/ \E path \in RevocablePaths : RevokeAccess(path)
  \/ Execute
  \/ \E k \in 1..MaxTargets : \E readOk \in BOOLEAN :
       \E corrector \in {"pass", "correct", "fail"} : WriteReconcile(k, readOk, corrector)
  \/ \E k \in 1..MaxTargets : \E mkdirOk \in BOOLEAN : WriteMkdir(k, mkdirOk)
  \/ \E k \in 1..MaxTargets : \E writeOk, telemetryOk \in BOOLEAN :
       WriteFile(k, writeOk, telemetryOk)
  \/ \E k \in 1..MaxTargets : \E readOk, telemetryOk \in BOOLEAN :
       ReadProcess(k, readOk, telemetryOk)
  \/ Return
  \/ Throw

SpecBulk == InitBulk /\ [][NextBulk]_vars

(***************************************************************************)
(* Approval: the calls of a session, one at a time, each taken through     *)
(* its approval step before it executes.                                   *)
(***************************************************************************)

\* the write calls: a target inside and one outside the workspace, alone
\* and in a batch
ApprovalParams ==
  {[single |-> Target(path, <<"x", "\n">>, NoLine, NoLine), files |-> NoFiles] :
     path \in {"a.txt", "../out.txt"}}
  \cup {[single |-> Target("", <<>>, NoLine, NoLine),
          files |-> Files([k \in 1..Len(l) |-> Target(l[k], <<"x", "\n">>, NoLine, NoLine)])] :
          l \in {<<"a.txt", "sub/b.txt">>, <<"a.txt", "../out.txt">>}}

\* the fact-store calls: one of each mutating action
ApprovalMemParams ==
  {MemParams("save", <<"b", "\n">>, NoId, FALSE),
   MemParams("delete", NoFact, 1, FALSE),
   MemParams("update", <<"b", "\n">>, 1, FALSE)}

InitApproval ==
  /\ memFile \in {NoFile, File(formatMemories(<<[id |-> 1, fact |-> <<"a">>]>>))}
  /\ InitMemState
  /\ InitBatchState
  /\ fs \in {[p \in FsPaths |->
                IF p = "dir" THEN Directory ELSE IF p = "a.txt" THEN a ELSE Absent] :
             a \in {Absent, FileOf(<<"o", "\n">>), Locked}}
  /\ hostCRLF = FALSE
  /\ disableLLMCorrection = FALSE
  /\ approvalMode \in ApprovalModes

NextApproval ==
  \/ \E params \in (IF call.phase = "idle" THEN ApprovalParams ELSE {}) :
       Build("write", params)
  \/ \E readOk, ide \in BOOLEAN : \E corrector \in {"pass", "correct", "fail"} :
       WriteConfirm(readOk, corrector, ide)
  \/ \E outcome \in WriteConfirmationOutcomes : \E ideResult \in IdeResults :
       WriteOnConfirm(outcome, ideResult)
  \/ ExecuteFrom({"approved"})
  \/ \E k \in 1..MaxTargets : \E readOk \in BOOLEAN :
       \E corrector \in {"pass", "correct", "fail"} : WriteReconcile(k, readOk, corrector)
  \/ \E k \in 1..MaxTargets : \E mkdirOk \in BOOLEAN : WriteMkdir(k, mkdirOk)
  \/ \E k \in 1..MaxTargets : \E writeOk, telemetryOk \in BOOLEAN :
       WriteFile(k, writeOk, telemetryOk)
  \/ Return
  \/ Throw
  \/ NextCall

SpecApproval == InitApproval /\ [][NextApproval]_vars

\* one write call and one fact-store call, interleaved, each taken through
\* its approval step before it executes
NextConfirm ==
  \/ \E params \in (IF call.phase = "idle" THEN ApprovalParams ELSE {}) :
       Build("write", params)
  \/ \E readOk, ide \in BOOLEAN : \E corrector \in {"pass", "correct", "fail"} :
       WriteConfirm(readOk, corrector, ide)
  \/ \E outcome \in WriteConfirmationOutcomes : \E ideResult \in IdeResults :
       WriteOnConfirm(outcome, ideResult)
  \/ ExecuteFrom({"approved"})
  \/ \E k \in 1..MaxTargets : \E readOk \in BOOLEAN :
       \E corrector \in {"pass", "correct", "fail"} : WriteReconcile(k, readOk, corrector)
  \/ \E k \in 1..MaxTargets : \E mkdirOk \in BOOLEAN : WriteMkdir(k, mkdirOk)
  \/ \E k \in 1..MaxTargets : \E writeOk, telemetryOk \in BOOLEAN :
       WriteFile(k, writeOk, telemetryOk)
  \/ Return
  \/ Throw
  \/ \E p \in ApprovalMemParams : inv[1].phase = "idle" /\ MemBuild(1, p)
  \/ MemConfirm(1)
  \/ \E outcome \in {"ProceedOnce", "ProceedAlways", "Cancel"} : MemOnConfirm(1, outcome)
  \/ MemExecute(1)

SpecConfirm == InitApproval /\ [][NextConfirm]_vars

(***************************************************************************)
(* Bulk executor: properties.                                              *)
(***************************************************************************)
Count(seq, Test(_)) == Cardinality({j \in 1..Len(seq) : Test(seq[j])})

FailedTargets == {k \in 1..Len(tgt) : tgt[k].result.settled /\ tgt[k].result.error}
SucceededTargets == {k \in 1..Len(tgt) : tgt[k].result.settled /\ ~tgt[k].result.error}

\* C1: in execute() of write_file and read_file, whatever goes wrong while a
\* target is processed becomes that target's {file_path, error} result: no
\* callback rejects, and execute() never throws in place of returning the
\* aggregate.
TargetFailureIsCaptured ==
  /\ call.phase # "threw"
  /\ \A k \in 1..Len(tgt) : tgt[k].pc # "threw"

\* C2: when execute() returns for N targets of which k failed, every target
\* has settled exactly once with one result, the aggregate holds N-k success
\* entries and k failure entries, and the display uses the success phrasing
\* with the count N-k exactly when N-k > 0, the failure phrasing otherwise.
AggregateCountsEveryTarget ==
  ret.returned =>
    LET N == Len(filesToWrite)
        k == Cardinality(FailedTargets)
    IN /\ Len(tgt) = N
       /\ \A t \in 1..N : /\ tgt[t].pc = "done"
                          /\ tgt[t].result.settled
                          /\ Count(settled, LAMBDA x : x = t) = 1
       /\ Cardinality(SucceededTargets) = N - k
       /\ Count(ret.llmContent, LAMBDA e : e.kind = "success") = N - k
       /\ Count(ret.llmContent, LAMBDA e : e.kind = "failure") = k
       /\ ret.returnDisplay.phrase \in {"file(s)", "Failed"}
       /\ ret.returnDisplay.phrase = "file(s)" <=> N - k > 0
       /\ ret.returnDisplay.phrase = "file(s)" => ret.returnDisplay.count = N - k

\* a batch of two has returned with one success and one failure
ReturnedOneOfTwoFailed ==
  /\ ret.returned
  /\ call.params.files.defined
  /\ Len(tgt) = 2
  /\ Cardinality(FailedTargets) = 1
  /\ ret.returnDisplay = [phrase |-> "file(s)", count |-> 1]

\* the problems that concern one target of a batch
PerTargetProblems ==
  {"access denied", "is a directory", "omission placeholders",
   "start_line below 1", "end_line below 1", "start_line above end_line", "ignored"}

SideEffectsOnlyOfSuccessfulTargets ==
  call.tool = "write" =>
    \A k \in 1..Len(tgt) :
      tgt[k].result.settled =>
        IF tgt[k].result.error
        THEN /\ tgt[k].mkdirs = 0 /\ tgt[k].writes = 0 /\ tgt[k].telemetry = 0
             /\ tgt[k].result.text.kind = "access denied" => tgt[k].reads = 0
        ELSE /\ tgt[k].writes = 1 /\ tgt[k].telemetry = 1 /\ tgt[k].mkdirs <= 1

\* C5: the aggregate lists the success entries in the order of the input
\* targets, whatever the order in which the targets settled, and after them
\* one error block, present exactly when a target failed, that names every
\* failed target once.
AggregateInInputOrder ==
  ret.returned =>
    LET indices == [k \in 1..Len(tgt) |-> k]
        ok == SelectSeq(indices, LAMBDA k : ~tgt[k].result.error)
        bad == SelectSeq(indices, LAMBDA k : tgt[k].result.error)
    IN ret.llmContent =
         [j \in 1..Len(ok) |-> Entry("success", tgt[ok[j]].result)]
         \o (IF Len(bad) > 0 THEN <<ErrorsHeader>> ELSE <<>>)
         \o [j \in 1..Len(bad) |-> Entry("failure", tgt[bad[j]].result)]

\* a batch has returned whose second target settled before its first, both
\* with success and with different entries
ReturnedAfterSettlingInReverse ==
  /\ ret.returned
  /\ settled = <<2, 1>>
  /\ ~tgt[1].result.error /\ ~tgt[2].result.error
  /\ tgt[1].result # tgt[2].result

(***************************************************************************)
(* Fact store: properties.                                                 *)
(***************************************************************************)
\* the records a reader of the store file sees
Records(file) == parseMemories(readMemoryFileContent(file))

LastOf(s) == s[Len(s)]

\* this step is execute() of slot i, for the given action, returning success
ExecutesOk(i, action) ==
  /\ inv[i].phase \in {"built", "approved"}
  /\ inv[i].params.action = action
  /\ inv'[i].phase = "done"
  /\ inv'[i].result.success

IdsIncreasing(memories) ==
  \A k \in 1..Len(memories) :
    /\ memories[k].id > 0
    /\ k > 1 => memories[k - 1].id < memories[k].id

\* C7: as long as no user-edited content was written, the ids of the records
\* in the store are positive and strictly increasing in file order, under
\* every interleaving of the invocations' handlers.
StoreIdsIncreasing ==
  (~userEdited) => IdsIncreasing(Records(memFile))

\* a save confirmed before a delete ran has written its stale proposal: the
\* deleted record 1 is back, beside the new record 3
StaleSaveAfterDelete ==
  /\ inv[1].phase = "done" /\ inv[1].result.kind = "generic"
  /\ inv[1].result.action = "save"
  /\ inv[2].phase = "done" /\ inv[2].result.kind = "deleted"
  /\ inv[2].result.id = 1
  /\ ~userEdited
  /\ Ids(Records(memFile)) = <<1, 2, 3>>

UpdateAbsentFailsWithoutWrite ==
  [][\A i \in Slots :
       (/\ inv[i].phase \in {"built", "approved"}
        /\ inv[i].params.action = "update"
        /\ inv'[i].phase = "done"
        /\ ~HasId(Records(memFile), inv[i].params.id))
       => (inv'[i].result.kind = "notFound" /\ memFile' = memFile)]_vars

DeleteAbsentLeavesFileAlone ==
  [][\A i \in Slots : ExecutesOk(i, "delete") =>
       LET old == Records(memFile)
           keep == {k \in 1..Len(old) : old[k].id # inv[i].params.id}
       IN /\ Records(memFile') = FilterSeq(old, {old[k] : k \in keep})
          /\ ~HasId(old, inv[i].params.id) => memFile' = memFile]_vars

\* C11, amended: a delete removes exactly the record with the given id and
\* keeps the others in order; a delete of an absent id succeeds and leaves
\* the records as they were; in both cases the file is rewritten as the
\* header followed by the remaining records, which creates a file that was
\* absent.
DeleteRemovesOnlyItsRecord ==
  [][\A i \in Slots : ExecutesOk(i, "delete") =>
       LET old == Records(memFile)
           new == Records(memFile')
           keep == {k \in 1..Len(old) : old[k].id # inv[i].params.id}
       IN /\ new = FilterSeq(old, {old[k] : k \in keep})
          /\ ~HasId(old, inv[i].params.id) => new = old
          /\ memFile' = File(formatMemories(new))]_vars

\* a delete of an id that was not in the store has succeeded, and the store
\* still holds its two records
DeletedAbsentFromStoreOfTwo ==
  /\ inv[1].phase = "done"
  /\ inv[1].result.kind = "deleted"
  /\ inv[1].result.success
  /\ ~inv[1].result.found
  /\ Len(Records(memFile)) = 2

\* C12: every successful save returns the id given to the new record, whether
\* execute() ran directly or after the confirmation step.
SaveReturnsAssignedId ==
  \A i \in Slots :
    (inv[i].phase = "done" /\ inv[i].result.action = "save" /\ inv[i].result.success)
      => /\ inv[i].result.kind = "saved"
         /\ inv[i].result.id = LastOf(Records(memFile)).id

\* C13: a fetch never waits for a confirmation, whatever the allowlist holds,
\* leaves the store file as it is (absent stays absent), and returns the
\* record with the id, or the not-found result, as a function of the store
\* and the id alone.
FetchIsPureRead ==
  [][\A i \in Slots :
       (/\ inv[i].params.action = "fetch"
        /\ inv[i].phase \in {"built", "approved"}
        /\ inv'[i] # inv[i])
       => /\ memFile' = memFile
          /\ inv'[i].phase \in {"approved", "done"}
          /\ inv'[i].phase = "done" =>
               LET hits == SelectSeq(Records(memFile),
                                     LAMBDA m : m.id = inv[i].params.id)
                   r == inv'[i].result
               IN IF hits = <<>>
                  THEN r.kind = "fetchNotFound" /\ ~r.success /\ r.id = inv[i].params.id
                  ELSE /\ r.kind = "fetched" /\ r.success
                       /\ r.id = inv[i].params.id /\ r.fact = hits[1].fact]_vars

\* a fetch has returned a record while the allowlist holds an entry
FetchedWithAllowlistEntry ==
  /\ allowlist # {}
  /\ \E i \in Slots : inv[i].phase = "done" /\ inv[i].result.kind = "fetched"

\* C14: a mutating execute() that succeeds writes exactly one of two
\* contents: the user-edited content, verbatim, when the parameters carry it
\* (whatever was computed is ignored), and otherwise the content computed
\* from parsed records (by the confirmation step if it ran, else by
\* execute() itself); a computed content is always the header followed by
\* records.
WritesEditedOrComputedContent ==
  [][\A i \in Slots :
       (/\ inv[i].phase \in {"built", "approved"}
        /\ inv[i].params.action # "fetch"
        /\ inv'[i].phase = "done")
       => LET p == inv[i].params
              proposed == inv[i].proposedNewContent
          IN /\ proposed.defined =>
                  proposed.content = formatMemories(parseMemories(proposed.content))
             /\ IF ~inv'[i].result.success THEN memFile' = memFile
                ELSE IF p.modified_by_user /\ p.modified_content.defined
                THEN memFile' = File(p.modified_content.content)
                ELSE IF proposed.defined
                THEN memFile' = File(proposed.content)
                ELSE memFile' =
                       File(formatMemories(ComputedMemories(p, Records(memFile))))]_vars

\* the user edited the proposal of a confirmation, and the edited content,
\* not the computed one, is what the store file holds
UserEditedContentWritten ==
  /\ userEdited
  /\ memFile = File(UserContent)
  /\ \E i \in Slots : inv[i].phase = "done" /\ inv[i].result.kind = "usermod"

\* C15: the allowlist grows by the action of a confirmation answered with
\* ProceedAlways and in no other way, and never shrinks; the confirmation
\* step of a mutating invocation shows no confirmation exactly when the
\* allowlist holds its action (the store path is fixed), so an entry for one
\* action does not silence another.
AllowlistOnlyByProceedAlways ==
  [][/\ allowlist' =
          allowlist \cup {inv[i].params.action :
                            i \in {j \in Slots : /\ inv[j].phase = "awaiting"
                                                 /\ inv'[j].outcome = "ProceedAlways"}}
     /\ \A i \in Slots :
          (/\ inv[i].phase = "built"
           /\ inv'[i].phase \in {"approved", "awaiting"}
           /\ inv[i].params.action # "fetch")
          => (inv'[i].phase = "approved" <=> inv[i].params.action \in allowlist)]_vars

\* after a ProceedAlways for an action, a later invocation of that action
\* went through its confirmation step without a confirmation
SkippedAfterProceedAlways ==
  \E i, j \in Slots :
    /\ inv[i].outcome = "ProceedAlways"
    /\ inv[j].phase = "approved" /\ inv[j].outcome = "none"
    /\ inv[j].params.action = inv[i].params.action
    /\ ~inv[j].proposedNewContent.defined
    /\ allowlist = {inv[i].params.action}

(***************************************************************************)
(* Fact store: the files it produces, from facts of every character class. *)
(***************************************************************************)

\* facts that pass validation: plain, with white space and a line feed to
\* normalise, and with a line separator inside and in front
RoundTripFacts ==
  {<<"a">>, <<" ", "b", "\n">>, <<"a", LineSeparator, "b">>, <<LineSeparator, "a">>}

RoundTripParams ==
  {MemParams("save", f, NoId, FALSE) : f \in RoundTripFacts}
  \cup {MemParams("update", f, 1, FALSE) : f \in RoundTripFacts}
  \cup {MemParams("delete", NoFact, id, FALSE) : id \in 1..2}

InitRoundTrip ==
  /\ memFile = NoFile
  /\ InitMemState
  /\ InitBatchIdle

NextRoundTrip ==
  \/ \E p \in RoundTripParams : MemBuild(1, p)
  \/ MemConfirm(1)
  \/ \E outcome \in {"ProceedOnce", "Cancel"} : MemOnConfirm(1, outcome)
  \/ MemExecute(1)

SpecRoundTrip == InitRoundTrip /\ [][NextRoundTrip]_vars

(***************************************************************************)
(* Write tool: one target, contents of every line-ending style.            *)
(***************************************************************************)

\* proposed contents: LF only, CRLF only, mixed
LineEndingContents ==
  {<<"a", "\n", "b", "\n">>, <<"a", "\r", "\n", "b", "\r", "\n">>,
   <<"a", "\n", "b", "\r", "\n">>}

\* and a content that starts with a byte-order mark
WriteContents == LineEndingContents \cup {<<BOM, "a", "\n">>}

WriteParams ==
  {[single |-> Target("a.txt", c, NoLine, NoLine), files |-> NoFiles] :
     c \in WriteContents}

\* the target is absent, empty, an LF file or a CRLF file
InitWrite ==
  /\ memFile = NoFile
  /\ InitMemState
  /\ InitBatchState
  /\ fs \in {[p \in FsPaths |->
                IF p = "dir" THEN Directory ELSE IF p = "a.txt" THEN a ELSE Absent] :
             a \in {Absent, FileOf(<<>>)} \cup {FileOf(c) : c \in OldContents}}
  /\ hostCRLF \in BOOLEAN
  /\ disableLLMCorrection \in BOOLEAN
  /\ approvalMode = "DEFAULT"

NextWrite ==
  \/ \E params \in (IF call.phase = "idle" THEN WriteParams ELSE {}) :
       Build("write", params)
  \/ Execute
  \/ \E k \in 1..MaxTargets : \E readOk \in BOOLEAN :
       \E corrector \in {"pass", "correct", "fail"} : WriteReconcile(k, readOk, corrector)
  \/ \E k \in 1..MaxTargets : \E mkdirOk \in BOOLEAN : WriteMkdir(k, mkdirOk)
  \/ \E k \in 1..MaxTargets : \E writeOk, telemetryOk \in BOOLEAN :
       WriteFile(k, writeOk, telemetryOk)
  \/ Return
  \/ Throw

SpecWrite == InitWrite /\ [][NextWrite]_vars

(***************************************************************************)
(* Diff tool: specification.                                               *)
(***************************************************************************)

\* the directories: every choice of bytes, or absence, for every name
DirNodes ==
  {DirNode(e) : e \in [Names -> {NoEntry} \cup {EntryOf(b) : b \in {<<"x">>, <<"xFF">>, <<"xFE">>}}]}

TreeNodes == {Missing} \cup {FileNode(b) : b \in ByteContents} \cup DirNodes

InitDiff ==
  /\ memFile = NoFile
  /\ InitMemState
  /\ InitBatchCore
  /\ fs = [p \in FsPaths |-> IF p = "dir" THEN Directory ELSE Absent]
  /\ hostCRLF = FALSE
  /\ disableLLMCorrection = FALSE
  /\ approvalMode = "DEFAULT"
  /\ tree \in [1..2 -> TreeNodes]
  /\ diff = NoDiff
  /\ lastRead = NoRead
  /\ InitFilenameIdle

NextDiff ==
  \/ \E recursive \in RecursiveInputs : DiffBuild(recursive)
  \/ \E statOk, readOk \in BOOLEAN : DiffExecute(statOk, readOk)

SpecDiff == InitDiff /\ [][NextDiff]_vars

(***************************************************************************)
(* File system service: specification.                                     *)
(***************************************************************************)

\* a.txt is absent or holds any text, byte-order marks included
InitService ==
  /\ memFile = NoFile
  /\ InitMemState
  /\ InitBatchState
  /\ fs \in {[p \in FsPaths |->
                IF p = "dir" THEN Directory ELSE IF p = "a.txt" THEN a ELSE Absent] :
             a \in {Absent} \cup {FileOf(c) : c \in Texts}}
  /\ hostCRLF = FALSE
  /\ disableLLMCorrection = FALSE
  /\ approvalMode = "DEFAULT"

NextService ==
  \/ ServiceRead("a.txt")
  \/ \E content \in Texts : ServiceWrite("a.txt", content)

SpecService == InitService /\ [][NextService]_vars

(***************************************************************************)
(* Cancellation: the caller aborts the signal it handed to execute().      *)
(***************************************************************************)

\* the caller aborts the signal of the calls that are under way
Abort ==
  /\ ~aborted
  /\ call.phase \in {"built", "running"} \/ inv[1].phase = "built"
  /\ aborted' = TRUE
  /\ UNCHANGED <<fs, dirs, denied, hostCRLF, disableLLMCorrection, call, tgt, settled, ret>>
  /\ UNCHANGED memVars
  /\ UNCHANGED diffVars
  /\ UNCHANGED serviceVars /\ UNCHANGED filenameVars
  /\ UNCHANGED <<approvalMode, callNo, alwaysPaths>>

\* the calls that may be aborted: a write and a read, alone and in a batch
CancelParams(tool) ==
  {[single |-> Target("a.txt", IF tool = "write" THEN <<"x", "\n">> ELSE <<>>,
                      NoLine, NoLine),
    files |-> NoFiles],
   [single |-> Target("", <<>>, NoLine, NoLine),
    files |-> Files([k \in 1..2 |->
               Target(<<"a.txt", "sub/b.txt">>[k],
                      IF tool = "write" THEN <<"x", "\n">> ELSE <<>>, NoLine, NoLine)])]}

\* and the fact-store calls: one of each action
CancelMemParams == ApprovalMemParams \cup {MemParams("fetch", NoFact, 1, FALSE)}

InitCancel ==
  /\ memFile \in {NoFile, File(formatMemories(<<[id |-> 1, fact |-> <<"a">>]>>))}
  /\ InitMemState
  /\ InitBatch

NextCancel ==
  \/ \E tool \in {"write", "read"} :
       \E params \in (IF call.phase = "idle" THEN CancelParams(tool) ELSE {}) :
         Build(tool, params)
  \/ Abort
  \/ ExecuteFrom({"built"})
  \/ \E k \in 1..MaxTargets : \E readOk \in BOOLEAN :
       \E corrector \in {"pass", "correct", "fail"} : WriteReconcile(k, readOk, corrector)
  \/ \E k \in 1..MaxTargets : \E mkdirOk \in BOOLEAN : WriteMkdir(k, mkdirOk)
  \/ \E k \in 1..MaxTargets : \E writeOk, telemetryOk \in BOOLEAN :
       WriteFile(k, writeOk, telemetryOk)
  \/ \E k \in 1..MaxTargets : \E readOk, telemetryOk \in BOOLEAN :
       ReadProcess(k, readOk, telemetryOk)
  \/ Return
  \/ Throw
  \/ \E p \in CancelMemParams : inv[1].phase = "idle" /\ MemBuild(1, p)
  \/ MemExecute(1)

SpecCancel == InitCancel /\ [][NextCancel]_vars

(***************************************************************************)
(* Write tool: approval properties.                                        *)
(***************************************************************************)

\* the approval step of a single-target write call is taken
SingleWriteConfirmed ==
  /\ call.phase = "built"
  /\ call'.phase \in {"approved", "awaiting", "confirmFailed"}
  /\ call.tool = "write"
  /\ ~call.params.files.defined

\* C16: once the user answered the edit confirmation of a single-target
\* write with ProceedAlways, the approval step of a later single-target
\* write to the same path returns no confirmation details.
WriteAlwaysAllowedSkipsConfirmation ==
  [][(SingleWriteConfirmed /\ call.params.single.file_path \in alwaysPaths)
       => call'.details.type = "none"]_vars

\* the approval step of a write call, single or batch, is taken
WriteConfirmed ==
  /\ call.phase = "built"
  /\ call'.phase \in {"approved", "awaiting", "confirmFailed"}
  /\ call.tool = "write"

ApprovalStep ==
  \/ call.phase = "built" /\ call'.phase \in {"approved", "awaiting", "confirmFailed"}
  \/ call.phase = "awaiting" /\ call'.phase \in {"approved", "cancelled"}
  \/ inv[1].phase = "built" /\ inv'[1].phase \in {"approved", "awaiting"}
  \/ inv[1].phase = "awaiting" /\ inv'[1].phase \in {"approved", "cancelled"}

\* a step of execute() of the write call, of the fact-store call
WriteExecuteStep ==
  /\ call.phase \in {"running", "threw"}
  /\ \E k \in 1..Len(tgt) : tgt[k].pc \in {"mkdir", "write"} /\ tgt'[k] # tgt[k]

MemExecuteStep ==
  /\ inv[1].phase \in {"built", "approved"}
  /\ inv'[1].phase = "done"

\* C18: the approval steps of a write call and of a mutating fact-store
\* call (reconciliation, diff preview, the answer to the prompt) leave the
\* files, the directories and the fact-store file as they were; files and
\* directories change only in a step of the write's execute(), and the
\* fact-store file only in execute() of the fact-store call.
ApprovalLeavesFilesAlone ==
  [][/\ ApprovalStep => (fs' = fs /\ dirs' = dirs /\ memFile' = memFile)
     /\ (fs' # fs \/ dirs' # dirs) => WriteExecuteStep
     /\ memFile' # memFile => MemExecuteStep]_vars

\* C18 witness: the write call waits with its reconciled diff and the
\* fact-store call with its proposed content, and the existing target and
\* the fact-store file are still what they were
BothAwaitingNothingWritten ==
  /\ call.phase = "awaiting"
  /\ call.details.type = "edit"
  /\ call.details.originalContent = <<"o", "\n">>
  /\ call.details.newContent = CorrectedByLLM
  /\ fs["a.txt"] = FileOf(<<"o", "\n">>)
  /\ inv[1].phase = "awaiting"
  /\ inv[1].params.action = "save"
  /\ inv[1].proposedNewContent.defined
  /\ memFile = NoFile

\* some target of the call exists and cannot be read
HasLockedTarget(params) ==
  \E k \in 1..Len(FilesOf(params)) : fs[FilesOf(params)[k].file_path] = Locked

\* the reconciliation of the approval step reported an error: the only way
\* a single-target call gets no details outside AUTO_EDIT
ApprovalSawReadError ==
  /\ approvalMode = "DEFAULT"
  /\ call.tool = "write"
  /\ ~call.params.files.defined
  /\ call.phase \in {"approved", "running", "returned"}
  /\ call.details.type = "none"

\* C19: the approval step of a write call with a target that exists and
\* cannot be read ends without a confirmation prompt, and a call whose
\* reconciliation reported an error in the approval step returns, from
\* execute(), the read error for that target with nothing written.
UnreadableTargetFailsUnprompted ==
  [][/\ (WriteConfirmed /\ HasLockedTarget(call.params)) => call'.prompt = "none"
     /\ (ApprovalSawReadError' /\ call'.phase = "returned")
          => /\ tgt'[1].result.text.kind = "read error"
             /\ tgt'[1].writes = 0]_vars

(***************************************************************************)
(* Cancellation properties.                                                *)
(***************************************************************************)

\* C20: once the signal is aborted, no target of a write or read call does
\* another read, directory creation or write, a target that settles reports
\* a cancellation error, and the fact-store call leaves its file alone and
\* reports a cancellation as well.
AbortedTargetStopsIO ==
  [][aborted =>
       /\ \A k \in 1..Len(tgt) :
            /\ tgt'[k].reads = tgt[k].reads
            /\ tgt'[k].mkdirs = tgt[k].mkdirs
            /\ tgt'[k].writes = tgt[k].writes
            /\ (tgt[k].pc # "done" /\ tgt'[k].pc = "done")
                 => tgt'[k].result.text.kind = "cancelled"
       /\ fs' = fs /\ dirs' = dirs /\ memFile' = memFile
       /\ (inv[1].phase = "built" /\ inv'[1].phase = "done")
            => inv'[1].result.kind = "cancelled"]_vars

(***************************************************************************)
(* Fact store: round trip.                                                 *)
(***************************************************************************)

\* C21: every store file that save, update or delete has written is what
\* formatMemories makes of what parseMemories reads from it.
StoreFileRoundTrips ==
  memFile.exists =>
    formatMemories(parseMemories(memFile.content)) = memFile.content

(***************************************************************************)
(* Write tool: line endings and the reported operation.                    *)
(***************************************************************************)

\* target k is written in this step
Written(k) ==
  /\ k \in 1..Len(tgt)
  /\ tgt[k].pc = "write"
  /\ tgt'[k].writes = tgt[k].writes + 1

\* every line of c ends with LF alone, with CRLF
EntirelyLF(c) == \A i \in 1..Len(c) : c[i] # "\r"
EntirelyCRLF(c) ==
  /\ \A i \in 1..Len(c) : c[i] = "\n" => (i > 1 /\ c[i - 1] = "\r")
  /\ \A i \in 1..Len(c) : c[i] = "\r" => (i < Len(c) /\ c[i + 1] = "\n")

\* the target of a step that writes it pre-exists with content
PreExistsWithContent(k) == ~tgt[k].isNewFile /\ tgt[k].originalContent # <<>>

\* C22: the content written to a target that pre-exists with content has
\* the line endings of the existing file, CRLF or LF; the content written to
\* a new or empty target has the line endings of the host.
LineEndingsFollowTargetOrHost ==
  [][\A k \in 1..MaxTargets : Written(k) =>
       LET written == fs'[filesToWrite[k].file_path].content
           crlf == IF PreExistsWithContent(k)
                   THEN DetectsCRLF(tgt[k].originalContent)
                   ELSE hostCRLF
       IN IF crlf THEN EntirelyCRLF(written) ELSE EntirelyLF(written)]_vars

\* C23: the content written to a pre-existing CRLF file has CRLF at the end
\* of every line and no other carriage return, whether the proposed content
\* used LF, CRLF or both.
CRLFTargetStaysCRLF ==
  [][\A k \in 1..MaxTargets :
       (Written(k) /\ PreExistsWithContent(k) /\ DetectsCRLF(tgt[k].originalContent))
         => EntirelyCRLF(fs'[filesToWrite[k].file_path].content)]_vars

\* C23 witness: mixed content was written to the CRLF file, as CRLF
MixedContentWrittenAsCRLF ==
  /\ call.phase = "returned"
  /\ call.params.single.content = <<"a", "\n", "b", "\r", "\n">>
  /\ tgt[1].originalContent = <<"o", "\r", "\n">>
  /\ tgt[1].writes = 1
  /\ fs["a.txt"] = FileOf(<<"a", "\r", "\n", "b", "\r", "\n">>)

\* target k is written in this step and reports success
WrittenWithSuccess(k) == Written(k) /\ ~tgt'[k].result.error

\* the target is new, the host uses LF and content correction is disabled
NewFileAsProposed(k) ==
  /\ fs[filesToWrite[k].file_path] = Absent
  /\ ~hostCRLF
  /\ disableLLMCorrection

\* C24: a successful target reports "Created" exactly when its
\* file did not exist before the write and "Updated" exactly when it did,
\* and a new file on an LF host with content correction disabled holds
\* exactly the proposed content.
CreatedOrUpdatedAndExactContent ==
  [][\A k \in 1..MaxTargets : WrittenWithSuccess(k) =>
       LET path == filesToWrite[k].file_path IN
       /\ tgt'[k].result.text.kind = "Created" <=> fs[path] = Absent
       /\ tgt'[k].result.text.kind = "Updated" <=> fs[path].kind = "file"
       /\ NewFileAsProposed(k) => fs'[path].content = filesToWrite[k].content]_vars

(***************************************************************************)
(* Bulk executor: the shapes validation accepts.                           *)
(***************************************************************************)

\* C25: a write_file or read_file call that validation accepted has the
\* single-target shape or the batch shape populated, never both and never
\* neither, and its batch, if it has one, is not empty.
AcceptedCallHasOneShape ==
  call.phase \notin {"idle", "rejected"} =>
    /\ (call.params.single.file_path # "") <=> ~call.params.files.defined
    /\ call.params.files.defined => Len(call.params.files.list) > 0

\* a line range that read_file must not accept
BadRange(f) ==
  \/ f.start_line # NoLine /\ f.start_line < 1
  \/ f.end_line # NoLine /\ f.end_line < 1
  \/ f.start_line # NoLine /\ f.end_line # NoLine /\ f.start_line > f.end_line

\* C26: a read_file call one of whose targets, the single one or any one
\* of a batch, has start_line < 1, end_line < 1 or start_line > end_line is
\* rejected by validation, and none of its targets is ever processed or read.
BadRangeRejectedBeforeRead ==
  (/\ call.tool = "read"
   /\ \E k \in 1..Len(filesToWrite) : BadRange(filesToWrite[k]))
    => /\ call.phase = "rejected"
       /\ tgt = <<>>

\* C26 witness: a batch is rejected for the range of its second target,
\* start_line above end_line, with nothing read
BatchRejectedForRangeOfSecond ==
  /\ call.tool = "read"
  /\ call.phase = "rejected"
  /\ call.params.files.defined
  /\ Len(filesToWrite) = 2
  /\ ~BadRange(filesToWrite[1])
  /\ filesToWrite[2].start_line = 2 /\ filesToWrite[2].end_line = 1
  /\ call.rejection.index = 2
  /\ tgt = <<>>

(***************************************************************************)
(* Diff tool: properties.                                                  *)
(***************************************************************************)

\* the result of execute() is a comparison, not an error
Compared == diff.result.kind \in {"Files are identical.", "patch", "Directory comparison"}

\* C27: execute() of the diff tool always returns: with an error result
\* when one path is a file and the other a directory, or a path is missing
\* or cannot be read, and with a comparison only when both paths are files
\* or both are directories.
DiffReturnsErrorNotException ==
  /\ diff.phase \in {"idle", "built", "returned"}
  /\ diff.phase = "returned" =>
       /\ diff.result.kind \in {"error", "Files are identical.", "patch",
                                "Directory comparison"}
       /\ (tree[1].kind # tree[2].kind \/ tree[1].kind = "missing")
            => diff.result.kind = "error"
       /\ diff.result.kind \in {"Files are identical.", "patch"}
            => (tree[1].kind = "file" /\ tree[2].kind = "file")
       /\ diff.result.kind = "Directory comparison"
            => (tree[1].kind = "dir" /\ tree[2].kind = "dir")

\* C27 witness: two directories with a file in both, which could not be
\* read: an error was returned
DirectoryReadFailureReturned ==
  /\ diff.phase = "returned"
  /\ tree[1].kind = "dir" /\ tree[2].kind = "dir"
  /\ tree[1].entries["a.txt"].present /\ tree[2].entries["a.txt"].present
  /\ diff.result = DiffError("read failed")

\* the elements of a list, and whether it is in sort order without repeats
Elements(list) == {list[i] : i \in 1..Len(list)}
Position(n) == CHOOSE i \in 1..Len(EntryNames) : EntryNames[i] = n
InSortOrder(list) ==
  \A i, j \in 1..Len(list) : i < j => Position(list[i]) < Position(list[j])

\* the entries of a directory that the comparison enumerates: every file,
\* or in shallow mode the files of the root
Enumerated(node) ==
  {n \in Names : node.entries[n].present /\ (diff.recursive # "false" \/ n # "s/d.txt")}

\* C28: a directory comparison reports only-in-left, only-in-right and,
\* of the entries in both, those whose contents differ; the three lists are
\* sorted, only-in-left, only-in-right and in-both partition the entries, and
\* the directories are called identical exactly when the three are empty.
DirectoryDiffPartitions ==
  (diff.phase = "returned" /\ diff.result.kind = "Directory comparison") =>
    LET left == Enumerated(tree[1])
        right == Enumerated(tree[2])
        r == diff.result
    IN /\ Elements(r.onlyIn1) = left \ right
       /\ Elements(r.onlyIn2) = right \ left
       /\ Elements(r.modified) =
            {n \in left \cap right : tree[1].entries[n].bytes # tree[2].entries[n].bytes}
       /\ InSortOrder(r.onlyIn1) /\ InSortOrder(r.onlyIn2) /\ InSortOrder(r.modified)
       /\ r.identical <=> (r.onlyIn1 = <<>> /\ r.onlyIn2 = <<>> /\ r.modified = <<>>)

\* C29: comparing two files returns 'Files are identical.' exactly when
\* the contents of the two files are equal, and the patch of the two
\* contents otherwise.
FilesIdenticalIffEqual ==
  (diff.phase = "returned" /\ Compared /\ tree[1].kind = "file") =>
    IF tree[1].bytes = tree[2].bytes
    THEN diff.result.kind = "Files are identical."
    ELSE diff.result.kind = "patch"

(***************************************************************************)
(* File system service: properties.                                        *)
(***************************************************************************)

StartsWithBOM(c) == Len(c) > 0 /\ Head(c) = BOM

\* C30: what writeTextFile stores never starts with a byte-order mark, and
\* what readTextFile returns never starts with one, whatever the content
\* written and whatever the file holds.
ServiceNeverYieldsLeadingBOM ==
  [][/\ fs'["a.txt"] # fs["a.txt"] => ~StartsWithBOM(fs'["a.txt"].content)
     /\ lastRead'.defined => ~StartsWithBOM(lastRead'.content)]_vars

(***************************************************************************)
(* Context file names: specification and properties.                       *)
(***************************************************************************)
InitFilename ==
  /\ memFile = NoFile
  /\ InitMemState
  /\ InitBatchIdle

NextFilename == \E newFilename \in FilenameInputs : SetFilename(newFilename)

SpecFilename == InitFilename /\ [][NextFilename]_vars

\* the last call passed a non-empty array of names
SetToArray == lastSet.defined /\ lastSet.value.array /\ Len(lastSet.value.list) > 0

\* C31: after setGeminiMdFilename(names) with a non-empty array of names,
\* getCurrentGeminiMdFilename() returns the first name and
\* getAllGeminiMdFilenames() returns exactly the configured names, in order,
\* and nothing else.
ArrayOfNamesIsWhatGettersReturn ==
  SetToArray =>
    /\ getCurrentGeminiMdFilename(currentGeminiMdFilename) = lastSet.value.list[1]
    /\ getAllGeminiMdFilenames(currentGeminiMdFilename) = lastSet.value.list

(***************************************************************************)
(* Fact store: interleaved invocations, with the history of saves.         *)
(***************************************************************************)
\* two saves of different facts and a delete, none edited by the user
DurableParamSpace ==
  {MemParams("save", <<"a">>, NoId, FALSE),
   MemParams("save", <<"b">>, NoId, FALSE),
   MemParams("delete", NoFact, 1, FALSE)}

\* the store is absent, or holds one record
InitDurable ==
  /\ memFile \in {NoFile, File(formatMemories(MemoriesOf({1}, <<"a">>)))}
  /\ InitMemState
  /\ InitBatchIdle

\* invocations interleaved at their handlers, each slot used once
NextDurable ==
  \/ \E i \in Slots, p \in DurableParamSpace :
       inv[i].phase = "idle" /\ MemBuild(i, p)
  \/ \E i \in Slots : MemConfirm(i)
  \/ \E i \in Slots, outcome \in {"ProceedOnce", "ProceedAlways", "Cancel"} :
       MemOnConfirm(i, outcome)
  \/ \E i \in Slots : MemExecuteRecorded(i)

SpecDurable == InitDurable /\ [][NextDurable]_vars

\* every invocation that was built has completed
AllCompleted ==
  \A i \in Slots : inv[i].phase \in {"idle", "done", "cancelled", "rejected"}

\* C32: for any interleaving of the confirmation and execute steps of two or
\* more fact-store invocations on the same store, after all of them
\* completed the store contains the record of every successful save that no
\* later delete removed, and no two successful saves were given the same id.
SuccessfulSavesDurable ==
  AllCompleted =>
    /\ \A k \in 1..Len(saved) :
         ~saved[k].removed =>
           \E j \in 1..Len(Records(memFile)) :
             /\ Records(memFile)[j].id = saved[k].id
             /\ Records(memFile)[j].fact = saved[k].fact
    /\ \A j, k \in 1..Len(saved) : j # k => saved[j].id # saved[k].id

(***************************************************************************)
(* Write tool: the targets described, confirmed and written.               *)
(***************************************************************************)
\* a call with file_path and content next to an empty files array
EmptyFilesWithPath ==
  [single |-> Target("a.txt", <<"x", "\n">>, NoLine, NoLine), files |-> Files(<<>>)]

\* the write calls: the single shape, a batch, both shapes, and the single
\* shape next to an empty files array
TargetsParams ==
  {[single |-> Target("a.txt", <<"x", "\n">>, NoLine, NoLine), files |-> NoFiles],
   [single |-> Target("", <<>>, NoLine, NoLine),
    files |-> Files(<<Target("a.txt", <<"x", "\n">>, NoLine, NoLine),
                      Target("sub/b.txt", <<"x", "\n">>, NoLine, NoLine)>>)],
   BothShapes("write"),
   EmptyFilesWithPath}

\* one write call, taken through its approval step before it executes
NextTargets ==
  \/ \E params \in (IF call.phase = "idle" THEN TargetsParams ELSE {}) :
       Build("write", params)
  \/ \E readOk, ide \in BOOLEAN : \E corrector \in {"pass", "correct", "fail"} :
       WriteConfirm(readOk, corrector, ide)
  \/ \E outcome \in WriteConfirmationOutcomes : \E ideResult \in IdeResults :
       WriteOnConfirm(outcome, ideResult)
  \/ ExecuteFrom({"approved"})
  \/ \E k \in 1..MaxTargets : \E readOk \in BOOLEAN :
       \E corrector \in {"pass", "correct", "fail"} : WriteReconcile(k, readOk, corrector)
  \/ \E k \in 1..MaxTargets : \E mkdirOk \in BOOLEAN : WriteMkdir(k, mkdirOk)
  \/ \E k \in 1..MaxTargets : \E writeOk, telemetryOk \in BOOLEAN :
       WriteFile(k, writeOk, telemetryOk)
  \/ Return
  \/ Throw

SpecTargets == InitApproval /\ [][NextTargets]_vars

\* the paths of the targets that execute() works on
ExecutedPaths == [k \in 1..Len(tgt) |-> filesToWrite[k].file_path]

\* C33: for every parameter set accepted by write_file validation, the
\* targets that the invocation describes and submits for confirmation
\* (getDescription, toolLocations, getConfirmationDetails) are exactly the
\* targets that execute() writes.
DescribedTargetsAreWritten ==
  (call.tool = "write" /\ call.phase \in {"running", "returned", "threw"}) =>
    /\ toolLocations(call.params) = ExecutedPaths
    /\ IF getDescription(call.params).kind = "batch"
       THEN getDescription(call.params).count = Len(tgt)
       ELSE ExecutedPaths = <<getDescription(call.params).path>>
    /\ call.details.type = "edit" => ExecutedPaths = <<call.params.single.file_path>>
    /\ call.details.type = "info" => call.details.count = Len(tgt)

(***************************************************************************)
(* Write tool: a batch that names one path more than once.                 *)
(***************************************************************************)
\* the targets of the batch that name the path, and those that succeeded
TargetsOf(path) == {k \in 1..Len(tgt) : filesToWrite[k].file_path = path}
SucceededOn(path) ==
  {k \in TargetsOf(path) : tgt[k].result.settled /\ ~tgt[k].result.error}

\* the paths that no initial file system of the bulk specification holds
AbsentBeforeCall == FsPaths \ {"a.txt", "dir"}

\* C34: in a write batch that names the same path in two or more targets, a
\* path that did not exist before the call is reported as 'Created' by at
\* most one target, and the final file content equals the written content
\* of the target whose result is reported last for that path.
SamePathReportedConsistently ==
  (call.tool = "write" /\ call.phase = "returned") =>
    \A path \in FsPaths :
      Cardinality(TargetsOf(path)) >= 2 =>
        /\ path \in AbsentBeforeCall =>
             Cardinality({k \in SucceededOn(path) :
                            tgt[k].result.text.kind = "Created"}) <= 1
        /\ SucceededOn(path) # {} =>
             LET last == CHOOSE k \in SucceededOn(path) :
                           \A j \in SucceededOn(path) : j <= k
             IN fs[path].content = StripBOM(tgt[last].result.text.content)

(***************************************************************************)
(* Fact store: execute() with reads and writes that may fail.              *)
(***************************************************************************)
\* one invocation of each action, with ids in the store and not in it
MemIOParamSpace ==
  {MemParams("save", <<"b", "\n">>, NoId, FALSE),
   MemParams("delete", NoFact, 1, FALSE),
   MemParams("update", <<"b", "\n">>, 1, FALSE),
   MemParams("update", <<"b", "\n">>, 2, FALSE),
   MemParams("fetch", NoFact, 1, FALSE),
   MemParams("fetch", NoFact, 2, FALSE)}

NextMemIO ==
  \/ \E i \in Slots, p \in MemIOParamSpace :
       inv[i].phase = "idle" /\ MemBuild(i, p)
  \/ \E i \in Slots : MemConfirm(i)
  \/ \E i \in Slots, outcome \in {"ProceedOnce", "Cancel"} : MemOnConfirm(i, outcome)
  \/ \E i \in Slots : \E readOk, mkdirOk \in BOOLEAN : \E writeOutcome \in WriteOutcomes :
       MemExecuteIO(i, readOk, mkdirOk, writeOutcome)

SpecMemIO == InitDurable /\ [][NextMemIO]_vars

\* this step is execute() of slot i
MemExecutes(i) ==
  /\ inv[i].phase \in {"built", "approved"}
  /\ inv'[i].phase \in {"done", "threw"}

\* the error results that execute() builds before it starts to write: a
\* missing or absent id, invalid parameters, an unreadable store, a
\* directory that could not be made
ErrorBeforeWrite(result) ==
  ~result.success /\ result.kind # "writeError"

\* C35: fact-store execute() never throws, and whenever it returns a result
\* carrying an error (missing id, update of an absent id, invalid action or
\* parameters, unreadable store) the content of the store file is the same
\* as before the call.
MemExecuteReturnsAndErrorsLeaveStore ==
  [][\A i \in Slots : MemExecutes(i) =>
       /\ inv'[i].phase = "done"
       /\ ErrorBeforeWrite(inv'[i].result) => memFile' = memFile]_vars

\* C35 witness: an update of an id that is not in the store and a call that
\* could not read the store have both returned their error, and the store
\* is what it was
UpdateAbsentAndUnreadableReturned ==
  /\ inv[1].phase = "done" /\ inv[1].result.kind = "notFound"
  /\ inv[2].phase = "done" /\ inv[2].result.kind = "readError"
  /\ memFile = File(formatMemories(MemoriesOf({1}, <<"a">>)))

(***************************************************************************)
(* Write tool: the content accepted in the IDE.                            *)
(***************************************************************************)
\* C36: when the IDE diff of a single-target write is accepted with edited
\* content, then after onConfirm the proposed content of the invocation
\* equals the accepted content, for every accepted content, the empty string
\* included; with no IDE side channel, or a rejected diff, the proposed
\* content is left unchanged.
IdeAcceptedContentIsProposed ==
  [][\A outcome \in WriteConfirmationOutcomes : \A ideResult \in IdeResults :
       (call.details.type = "edit" /\ WriteOnConfirm(outcome, ideResult)) =>
         IF call.details.ideConfirmation /\ ideResult.status = "accepted"
         THEN call'.params.single.content = ideResult.content
         ELSE call'.params.single.content = call.params.single.content]_vars

(***************************************************************************)
(* Write tool: the outcomes of content reconciliation.                     *)
(***************************************************************************)
\* C37: content reconciliation classifies the read of the target into
\* exactly three outcomes: read succeeded (fileExists, no error, the
\* correction of old against new content is run); not found (not
\* fileExists, originalContent empty, no error, only the new-file corrector
\* is run); any other read failure (fileExists, error, originalContent
\* empty, correctedContent equal to the proposed content, no corrector
\* invoked).
ReconciliationHasThreeOutcomes ==
  [][\A k \in 1..MaxTargets : \A readOk \in BOOLEAN : \A corrector \in {"pass", "correct", "fail"} :
       WriteReconcile(k, readOk, corrector) =>
         LET f == filesToWrite[k]
             file == fs[f.file_path]
             r == getCorrectedFileContent(file, readOk, f.content, corrector)
         IN IF file.kind = "file" /\ readOk
            THEN /\ r.fileExists /\ ~r.error
                 /\ r.invoked = "ensureCorrectEdit"
            ELSE IF file.kind = "absent"
            THEN /\ ~r.fileExists /\ ~r.error
                 /\ r.originalContent = <<>>
                 /\ r.invoked = "ensureCorrectFileContent"
            ELSE /\ r.fileExists /\ r.error
                 /\ r.originalContent = <<>>
                 /\ r.correctedContent = f.content
                 /\ r.invoked = "none"
                 /\ tgt'[k].result.error]_vars

\* C37 witness: the target exists and could not be read; reconciliation
\* returned the error after one read and the target failed with it
UnreadableTargetReconciled ==
  /\ call.tool = "write"
  /\ Len(tgt) = 1
  /\ fs[filesToWrite[1].file_path].kind = "file"
  /\ tgt[1].pc = "done" /\ tgt[1].reads = 1
  /\ tgt[1].result.error /\ tgt[1].result.text.kind = "read error"

(***************************************************************************)
(* Write tool: the approval step of a batch.                               *)
(***************************************************************************)
\* the call is in batch mode: its files array names at least one target
BatchMode(params) == params.files.defined /\ Len(params.files.list) > 0

\* C38: for a write call in batch mode, when confirmation is required the
\* approval step returns a single 'info' prompt that names the number of
\* targets, carries no per-file diff and is the same whether or not the
\* targets can be read (no reconciliation read is made, so an unreadable
\* target neither fails nor changes the prompt); an 'edit' confirmation with
\* a diff is produced only for a call that is not in batch mode and names a
\* single target.
BatchApprovalIsOneInfoPrompt ==
  [][\A readOk, ide \in BOOLEAN : \A corrector \in {"pass", "correct", "fail"} :
       WriteConfirm(readOk, corrector, ide) =>
         /\ (BatchMode(call.params) /\ approvalMode # "AUTO_EDIT") =>
              /\ call'.phase = "awaiting"
              /\ call'.prompt = "tool"
              /\ call'.details.type = "info"
              /\ call'.details.count = Len(call.params.files.list)
              /\ call'.details.originalContent = <<>>
              /\ call'.details.newContent = <<>>
         /\ call'.details.type = "edit" =>
              /\ ~BatchMode(call.params)
              /\ Len(toolLocations(call.params)) = 1]_vars

\* C38 witness: a batch of two targets, the first of which exists and cannot
\* be read, awaits the answer to its one 'info' prompt
BatchOfUnreadableAwaitsInfoPrompt ==
  /\ call.tool = "write" /\ call.phase = "awaiting"
  /\ BatchMode(call.params)
  /\ Len(call.params.files.list) = 2
  /\ fs[call.params.files.list[1].file_path] = Locked
  /\ call.details = InfoDetails(2)

(***************************************************************************)
(* Bulk executor: the telemetry event and the outcome of a target.         *)
(***************************************************************************)
\* C39: telemetry emission never affects the outcome of an operation: a
\* write target whose file was written, and a read target whose file was
\* read, report the same success entry when the telemetry call fails as when
\* it succeeds, no callback rejects because of it (so the results of the
\* sibling targets are returned), and an event is emitted only for a target
\* that completed without failure.
TelemetryNeverAffectsOutcome ==
  [][\A k \in 1..MaxTargets :
       /\ WriteFile(k, TRUE, FALSE) =>
            /\ tgt'[k].pc = "done"
            /\ tgt'[k].result =
                 SuccessResult(filesToWrite[k].file_path,
                               IF tgt[k].isNewFile THEN "Created" ELSE "Updated",
                               FinalContent(tgt[k].fileContent, tgt[k].originalContent,
                                            tgt[k].isNewFile))
       /\ (ReadProcess(k, TRUE, FALSE) /\ fs[filesToWrite[k].file_path].kind = "file") =>
            /\ tgt'[k].pc = "done"
            /\ tgt'[k].result =
                 SuccessResult(filesToWrite[k].file_path, "content",
                               StripBOM(fs[filesToWrite[k].file_path].content))
       /\ (k \in 1..Len(tgt) /\ k \in 1..Len(tgt') /\ tgt'[k].telemetry > tgt[k].telemetry) =>
            (tgt'[k].pc = "done" /\ ~tgt'[k].result.error)]_vars

=============================================================================
